---- MODULE Spec2Model ----
(***************************************************************************)
(* Transition-probability pipeline of scripts/calculate_transition_       *)
(* probability.py: the classifier calculate_transition_probability, the   *)
(* loader parse_agents_file with its normalizer clean_location_name, the  *)
(* aggregator process_instance_type and main.                             *)
(*                                                                         *)
(* The specifications share the variables:                                *)
(*   SpecCtp   one call of calculate_transition_probability, one step per *)
(*             iteration of its loops;                                     *)
(*   SpecSets  the same under any assignment of its two location sets;    *)
(*   SpecLoad  one call of parse_agents_file, one step per chunk;         *)
(*   SpecClean clean_location_name applied to a value and to its result;  *)
(*   SpecNormalize  SpecClean and SpecLoad together;                      *)
(*   SpecAgg   one call of process_instance_type, one step per run;       *)
(*   SpecMain  main, one step per step of each process_instance_type call *)
(*             and per table.                                              *)
(***************************************************************************)
EXTENDS Integers, Sequences, FiniteSets, TLC

VARIABLES
    \* ---- calculate_transition_probability
    agent_movements,          \* its argument: agent id -> list of {'day','location'}
    ctp_pc,                   \* position in the function
    remaining,                \* agents the outer loop has not yet visited
    agent_id,                 \* the outer loop's current agent
    pos,                      \* movements of the current agent examined so far
    went_to_idp_first,
    went_to_coxs_after_idp,
    transition_agents,
    total_agents,
    transition_probability,   \* a quotient [num, den]; 0.0 is [num |-> 0, den |-> 1]
    \* ---- parse_agents_file (its local agent_movements is the variable above)
    file,                     \* the CSV artifact at file_path
    load_pc,                  \* position in the function
    chunk_count,
    parsed,                   \* the value the function returned
    \* ---- process_instance_type (its locals transition_prob, transition_count and
    \*      total_count are the classifier's three result variables above)
    instance_type,
    results_dir,              \* the entries of the results directory
    run_dirs,                 \* sorted(glob(...))
    run_index,                \* run directories the loop has gone through
    transition_probabilities,
    warnings,                 \* the run numbers warned about, with the reason
    pit_pc,                   \* position in the function
    pit_return,               \* the value the function returned
    \* ---- main
    results_dir_exists,       \* results_dir.exists()
    main_pc,                  \* position in the function
    instance_index,           \* instance types the loop has gone through
    results,                  \* instance type -> its statistics
    summary_data,             \* the rows of transition_probability_summary.csv
    detailed_data,            \* the rows of transition_probability_detailed.csv
    saved,                    \* the files to_csv has written
    exit_status,              \* <<>> while main runs, then <<its exit status>>
    \* ---- scale_errors_to_01 of plot_scaled_error.py
    data_array,               \* its argument: (run, day, location) -> value
    shape,                    \* data_array.shape
    dtype,                    \* data_array.dtype
    scaled_array,             \* the array it builds and returns
    location_idx,             \* locations the loop has gone through
    scale_pc,                 \* position in the function
    \* ---- main of plot_error.py and of plot_scaled_error.py
    base_path_exists,         \* os.path.exists(base_path)
    out_csv,                  \* instance -> run number -> what out.csv of the run is
    plot_fails,               \* instance -> whether drawing its heatmaps raises
    batch_pc,                 \* position in the function
    batch_index,              \* instances the loop has gone through
    analyze_return,           \* how the last call of analyze_instance ended
    all_results,              \* the instances that have an entry in all_results
    analysed,                 \* the instances analyze_instance was called on
    batch_errors,             \* the instances "Error analyzing" was printed for
    \* ---- clean_location_name, called on its own
    raw_location,             \* its argument
    clean_returns,            \* what successive applications returned
    clean_pc,
    \* ---- the two location sets of calculate_transition_probability, which
    \*      assigns them on entry
    idp_camps,
    coxs_bazar

ctp_vars == <<agent_movements, ctp_pc, remaining, agent_id, pos, went_to_idp_first,
              went_to_coxs_after_idp, transition_agents, total_agents,
              transition_probability>>

\* The classifier's variables other than the mapping.
ctp_locals == <<ctp_pc, remaining, agent_id, pos, went_to_idp_first,
                went_to_coxs_after_idp, transition_agents, total_agents,
                transition_probability>>

load_vars == <<file, load_pc, chunk_count, parsed>>

pit_vars == <<instance_type, results_dir, run_dirs, run_index,
              transition_probabilities, warnings, pit_pc, pit_return>>

main_vars == <<results_dir_exists, main_pc, instance_index, results, summary_data,
               detailed_data, saved, exit_status>>

clean_vars == <<raw_location, clean_returns, clean_pc>>

set_vars == <<idp_camps, coxs_bazar>>

\* What the classifier, the loader and the aggregator never touch.
scale_vars == <<data_array, shape, dtype, scaled_array, location_idx, scale_pc>>

batch_vars == <<base_path_exists, out_csv, plot_fails, batch_pc, batch_index,
                analyze_return, all_results, analysed, batch_errors>>

plot_vars == <<scale_vars, batch_vars>>

other_vars == <<main_vars, clean_vars, set_vars, plot_vars>>

vars == <<ctp_vars, load_vars, pit_vars, other_vars>>

(***************************************************************************)
(* Bounds of the model.                                                    *)
(***************************************************************************)
MaxAgents == 2      \* agents in a mapping handed to the classifier
MaxRecords == 4     \* movement records in such a mapping, over all agents
MaxRows == 3        \* data rows of a CSV artifact
ChunkSize == 2      \* rows per chunk (chunk_size, 50000 in the source, scaled down)
MaxTokens == 7      \* pieces of a location string cut at its colons

(***************************************************************************)
(* Values.                                                                 *)
(***************************************************************************)
IDP_CAMPS == {"Sittwe", "Pauktaw", "Myebon", "Maungdaw", "Kyauktaw", "Kyaukpyu",
              "Rathedaung", "Ramree", "Buthidaung", "Paletwa"}

COXS_BAZAR == "Cox's Bazar"

\* Location labels the classifier is run on: a staging camp, the destination and
\* a label in neither set.
Locations == {"Sittwe", COXS_BAZAR, "Dhaka"}

\* The rank-agentid of the i-th agent.
AgentKey(i) == "0-" \o ToString(i)

NoAgent == "-"

RECURSIVE SumTo(_, _)
SumTo(f, n) == IF n = 0 THEN 0 ELSE SumTo(f, n - 1) + (IF n \in DOMAIN f THEN f[n] ELSE 0)

(***************************************************************************)
(* calculate_transition_probability                                       *)
(***************************************************************************)
\* len(agent_movements): the number of agents of the mapping.
CountAgents_Records(am) ==
    LET keys == DOMAIN am
        idx == [i \in 1..MaxAgents |->
                  IF AgentKey(i) \in keys THEN Len(am[AgentKey(i)]) ELSE 0]
    IN  SumTo(idx, MaxAgents)

CountAgents(am) == Cardinality(DOMAIN am)

ScanInit_Staged ==
    [went_to_idp_first |-> TRUE, went_to_coxs_after_idp |-> FALSE, brk |-> FALSE]

\* The flags before an agent's first movement.
ScanInit == [went_to_idp_first |-> FALSE, went_to_coxs_after_idp |-> FALSE, brk |-> FALSE]

ScanStep_NeutralResets(st, location) ==
    IF location \in IDP_CAMPS /\ ~st.went_to_idp_first
    THEN [st EXCEPT !.went_to_idp_first = TRUE]
    ELSE IF location = COXS_BAZAR /\ st.went_to_idp_first
         THEN [st EXCEPT !.went_to_coxs_after_idp = TRUE, !.brk = TRUE]
         ELSE IF location \in IDP_CAMPS THEN st
              ELSE [st EXCEPT !.went_to_idp_first = FALSE]

ScanStep_NoStagingCheck(st, location) ==
    IF location \in IDP_CAMPS /\ ~st.went_to_idp_first
    THEN [st EXCEPT !.went_to_idp_first = TRUE]
    ELSE IF location = COXS_BAZAR
         THEN [st EXCEPT !.went_to_coxs_after_idp = TRUE, !.brk = TRUE]
         ELSE st

ScanStep_NoBreak(st, location) ==
    IF location \in IDP_CAMPS /\ ~st.went_to_idp_first
    THEN [st EXCEPT !.went_to_idp_first = TRUE]
    ELSE IF location = COXS_BAZAR /\ st.went_to_idp_first
         THEN [st EXCEPT !.went_to_coxs_after_idp = TRUE]
         ELSE st

\* One iteration of the loop over an agent's movements; brk is the break.
ScanStep(st, location) ==
    IF location \in IDP_CAMPS /\ ~st.went_to_idp_first
    THEN [st EXCEPT !.went_to_idp_first = TRUE]
    ELSE IF location = COXS_BAZAR /\ st.went_to_idp_first
         THEN [st EXCEPT !.went_to_coxs_after_idp = TRUE, !.brk = TRUE]
         ELSE st

ScanStepIn_StagingFirst(camps, coxs, st, location) ==
    IF location \in camps
    THEN [st EXCEPT !.went_to_idp_first = TRUE]
    ELSE IF location = coxs /\ st.went_to_idp_first
         THEN [st EXCEPT !.went_to_coxs_after_idp = TRUE, !.brk = TRUE]
         ELSE st

\* The same iteration with the two sets as the function's locals IDP_CAMPS and
\* COXS_BAZAR hold them.
ScanStepIn(camps, coxs, st, location) ==
    IF location \in camps /\ ~st.went_to_idp_first
    THEN [st EXCEPT !.went_to_idp_first = TRUE]
    ELSE IF location = coxs /\ st.went_to_idp_first
         THEN [st EXCEPT !.went_to_coxs_after_idp = TRUE, !.brk = TRUE]
         ELSE st

Contribution_Unconditional(went_after) == 1

\* What one agent adds to transition_agents once its movements are scanned.
Contribution(went_after) == IF went_after THEN 1 ELSE 0

\* Python's a / b on integers; a zero divisor raises ZeroDivisionError, shown by den = 0.
TrueDiv(a, b) == [num |-> a, den |-> b]

ZeroFloat == [num |-> 0, den |-> 1]

Probability_Unguarded(ta, total) == TrueDiv(ta, total)

\* The probability returned for the two counters.
Probability(ta, total) == IF total > 0 THEN TrueDiv(ta, total) ELSE ZeroFloat

\* The inner loop as a whole, from movement i on: the flags it ends with and the
\* number of movements it examined.
RECURSIVE ScanFrom(_, _, _)
ScanFrom(movements, i, st) ==
    IF i > Len(movements) \/ st.brk
    THEN [st |-> st, examined |-> i - 1]
    ELSE ScanFrom(movements, i + 1, ScanStep(st, movements[i].location))

Scan(movements) == ScanFrom(movements, 1, ScanInit)

\* The function as a whole.
CalculateTransitionProbability(am) ==
    LET total == CountAgents(am)
        ta == Cardinality({a \in DOMAIN am :
                             Contribution(Scan(am[a]).st.went_to_coxs_after_idp) = 1})
    IN  [transition_probability |-> Probability(ta, total),
         transition_agents |-> ta,
         total_agents |-> total]

CtpEntry ==
    /\ ctp_pc = "entry"
    /\ total_agents' = CountAgents(agent_movements)
    /\ transition_agents' = 0
    /\ remaining' = DOMAIN agent_movements
    /\ ctp_pc' = "agents"
    /\ UNCHANGED <<agent_movements, agent_id, pos, went_to_idp_first,
                   went_to_coxs_after_idp, transition_probability>>
    /\ UNCHANGED <<load_vars, pit_vars, other_vars>>

CtpNextAgent ==
    /\ ctp_pc = "agents"
    /\ \E a \in remaining :
         /\ agent_id' = a
         /\ remaining' = remaining \ {a}
         /\ ctp_pc' = IF Len(agent_movements[a]) = 0 THEN "agent_end" ELSE "movements"
    /\ went_to_idp_first' = ScanInit.went_to_idp_first
    /\ went_to_coxs_after_idp' = ScanInit.went_to_coxs_after_idp
    /\ pos' = 0
    /\ UNCHANGED <<agent_movements, transition_agents, total_agents,
                   transition_probability>>
    /\ UNCHANGED <<load_vars, pit_vars, other_vars>>

CtpMovement ==
    /\ ctp_pc = "movements"
    /\ LET movements == agent_movements[agent_id]
           st == ScanStep([went_to_idp_first |-> went_to_idp_first,
                           went_to_coxs_after_idp |-> went_to_coxs_after_idp,
                           brk |-> FALSE],
                          movements[pos + 1].location)
       IN  /\ went_to_idp_first' = st.went_to_idp_first
           /\ went_to_coxs_after_idp' = st.went_to_coxs_after_idp
           /\ pos' = pos + 1
           /\ ctp_pc' = IF st.brk \/ pos + 1 = Len(movements)
                        THEN "agent_end" ELSE "movements"
    /\ UNCHANGED <<agent_movements, remaining, agent_id, transition_agents,
                   total_agents, transition_probability>>
    /\ UNCHANGED <<load_vars, pit_vars, other_vars>>

\* CtpMovement with the two sets read from the function's locals.
CtpMovementIn ==
    /\ ctp_pc = "movements"
    /\ LET movements == agent_movements[agent_id]
           st == ScanStepIn(idp_camps, coxs_bazar,
                            [went_to_idp_first |-> went_to_idp_first,
                             went_to_coxs_after_idp |-> went_to_coxs_after_idp,
                             brk |-> FALSE],
                            movements[pos + 1].location)
       IN  /\ went_to_idp_first' = st.went_to_idp_first
           /\ went_to_coxs_after_idp' = st.went_to_coxs_after_idp
           /\ pos' = pos + 1
           /\ ctp_pc' = IF st.brk \/ pos + 1 = Len(movements)
                        THEN "agent_end" ELSE "movements"
    /\ UNCHANGED <<agent_movements, remaining, agent_id, transition_agents,
                   total_agents, transition_probability>>
    /\ UNCHANGED <<load_vars, pit_vars, other_vars>>

CtpAgentEnd ==
    /\ ctp_pc = "agent_end"
    /\ transition_agents' = transition_agents + Contribution(went_to_coxs_after_idp)
    /\ ctp_pc' = "agents"
    /\ UNCHANGED <<agent_movements, remaining, agent_id, pos, went_to_idp_first,
                   went_to_coxs_after_idp, total_agents, transition_probability>>
    /\ UNCHANGED <<load_vars, pit_vars, other_vars>>

CtpReturn ==
    /\ ctp_pc = "agents"
    /\ remaining = {}
    /\ LET p == Probability(transition_agents, total_agents)
       IN  /\ transition_probability' = p
           /\ ctp_pc' = IF p.den = 0 THEN "raised" ELSE "returned"
    /\ UNCHANGED <<agent_movements, remaining, agent_id, pos, went_to_idp_first,
                   went_to_coxs_after_idp, transition_agents, total_agents>>
    /\ UNCHANGED <<load_vars, pit_vars, other_vars>>

\* The classifier before its call.
CtpIdle ==
    /\ ctp_pc = "entry"
    /\ remaining = {}
    /\ agent_id = NoAgent
    /\ pos = 0
    /\ went_to_idp_first = FALSE
    /\ went_to_coxs_after_idp = FALSE
    /\ transition_agents = 0
    /\ total_agents = 0
    /\ transition_probability = ZeroFloat

\* The two sets as the function assigns them.
SetIdle ==
    /\ idp_camps = IDP_CAMPS
    /\ coxs_bazar = COXS_BAZAR

(***************************************************************************)
(* parse_agents_file                                                       *)
(*                                                                         *)
(* A CSV artifact is a header (the raw column names) and its data rows,    *)
(* each row a function from the raw column names to cells, as pandas       *)
(* delivers them: an empty cell of a present column is NaN, a column that  *)
(* is absent gives row.get its default None.  file.fail_at = k > 0 says    *)
(* that reading chunk k raises (an unreadable file, a malformed line).     *)
(* A location cell is the string cut at its colons: "L:Rakhine:Sittwe" is  *)
(* <<"L", ":", "Rakhine", ":", "Sittwe">>.                                 *)
(***************************************************************************)
NaNStr == "NaN"        \* NaN in a column of strings (agent ids, locations)
NoneStr == "None"      \* None where a string is expected
NaNNum == -1           \* NaN in a numeric column (time steps)
NoneNum == -2          \* None where a number is expected

NaNLoc == <<NaNStr>>
NoneLoc == <<NoneStr>>

EmptyMap == [k \in {} |-> <<>>]

IdColumns == {"rank-agentid", "agent_id"}
TimeColumns == {"#time", "time", "timestep"}

\* The headers of the artifacts the loader is run on.
Headers ==
    { {"#time", "rank-agentid", "current_location"},
      {"timestep", "agent_id", "current_location"},
      {"#time", "current_location"},
      {"rank-agentid", "current_location"},
      {"#time", "rank-agentid"} }

IdCells == {AgentKey(1), AgentKey(2), NaNStr}
TimeCells == {1, 2, NaNNum}
LocationCells == {<<"L", ":", "Rakhine", ":", "Sittwe">>, <<COXS_BAZAR>>}

RowOf(header, id, t, loc) ==
    [h \in header |-> IF h \in IdColumns THEN id
                      ELSE IF h \in TimeColumns THEN t
                      ELSE loc]

\* chunk.columns.str.replace('#', '') on the column names above.
StripHash(name) == IF name = "#time" THEN "time" ELSE name

CleanColumns(row) ==
    [c \in {StripHash(h) : h \in DOMAIN row} |->
        row[CHOOSE h \in DOMAIN row : StripHash(h) = c]]

\* Series.get(key, default)
RowGet(row, key, default) == IF key \in DOMAIN row THEN row[key] ELSE default

\* pd.isna on a location cell: true of NaN and of None.
IsNaLocation(location) == location \in {NaNLoc, NoneLoc}

clean_location_name_KeepsPath(location) ==
    IF IsNaLocation(location) THEN location
    ELSE IF Len(location) >= 2 /\ location[1] = "L" /\ location[2] = ":"
         THEN SubSeq(location, 3, Len(location))
         ELSE location

clean_location_name(location) ==
    IF IsNaLocation(location) THEN location
    ELSE IF Len(location) >= 2 /\ location[1] = "L" /\ location[2] = ":"
         THEN IF location[Len(location)] = ":" THEN <<>>
              ELSE <<location[Len(location)]>>
         ELSE location

\* The Python string (or NaN) a cut-up location stands for.
RECURSIVE Str(_)
Str(tokens) == IF tokens = <<>> THEN "" ELSE Head(tokens) \o Str(Tail(tokens))

AppendTo_Replaces(am, k, rec) ==
    [x \in DOMAIN am \cup {k} |-> IF x = k THEN <<rec>> ELSE am[x]]

\* defaultdict(list): agent_movements[k].append(rec).  Rows whose id is the one
\* NaN object of a column of objects share the key NaN.
AppendTo(am, k, rec) ==
    IF k \in DOMAIN am THEN [am EXCEPT ![k] = Append(@, rec)]
    ELSE [x \in DOMAIN am \cup {k} |-> IF x = k THEN <<rec>> ELSE am[x]]

\* agent_id is None, day is None
IsNoneId(x) == x = NoneStr

IsNoneDay(x) == x = NoneNum

\* The body of the loop over a chunk's rows, on a row whose columns and location
\* are already cleaned.
LoadRow(am, row) ==
    LET id == RowGet(row, "rank-agentid", RowGet(row, "agent_id", NoneStr))
        day == RowGet(row, "time", RowGet(row, "timestep", NoneNum))
        location == row["current_location"]
    IN  IF IsNoneId(id) \/ IsNoneDay(day) THEN am
        ELSE AppendTo(am, id, [day |-> day, location |-> Str(location)])

RECURSIVE LoadRows(_, _, _)
LoadRows(am, rows, i) ==
    IF i > Len(rows) THEN am ELSE LoadRows(LoadRow(am, rows[i]), rows, i + 1)

\* The rows of chunk k of the file.
ChunkRows(f, k) ==
    SubSeq(f.rows, (k - 1) * ChunkSize + 1,
           IF k * ChunkSize < Len(f.rows) THEN k * ChunkSize ELSE Len(f.rows))

NumChunks(f) == (Len(f.rows) + ChunkSize - 1) \div ChunkSize

\* Whether the body of the loop over chunks raises on chunk k: the read fails, or
\* the chunk has no 'current_location' column (KeyError).
ChunkRaises(f, k) ==
    \/ f.fail_at = k
    \/ "current_location" \notin {StripHash(h) : h \in f.header}

\* read_csv infers the type of a column chunk by chunk: an agent-id column with
\* a string in it is a column of objects, whose empty cells all are the one object
\* NaN; with only empty cells it is a column of floats, and iterrows boxes each of
\* its cells into a float object of its own.  NaNObject(n) is the one of row n.
NaNObject(n) == NaNStr \o "@" \o ToString(n)

IsNaNId(x) == x = NaNStr \/ \E n \in 1..(MaxRows + 1) : x = NaNObject(n)

FloatIdColumn(chunk) ==
    /\ chunk # <<>>
    /\ \A i \in 1..Len(chunk) :
          \E c \in IdColumns \cap DOMAIN chunk[i] : chunk[i][c] = NaNStr

\* The row iterrows yields for row i of a chunk whose first row follows row
\* `before` of the file.
IterRow(chunk, i, before) ==
    IF FloatIdColumn(chunk)
    THEN [c \in DOMAIN chunk[i] |->
            IF c \in IdColumns THEN NaNObject(before + i) ELSE chunk[i][c]]
    ELSE chunk[i]

\* The body of the loop over chunks on a chunk that does not raise.
LoadChunkOf(am, chunk, before) ==
    LET cleaned == [i \in 1..Len(chunk) |->
                      LET r == CleanColumns(IterRow(chunk, i, before))
                      IN  [r EXCEPT !["current_location"] = clean_location_name(@)]]
    IN  LoadRows(am, cleaned, 1)

\* The same on chunk k of the file.
LoadChunkRows(am, f, k) == LoadChunkOf(am, ChunkRows(f, k), (k - 1) * ChunkSize)

(***************************************************************************)
(* sorted(list, key=lambda x: x['day']) as CPython sorts a short list: the *)
(* leading run is found (and reversed if strictly descending), the rest is *)
(* inserted by binary insertion.  Every comparison is key(a) < key(b),     *)
(* which is False whenever one of the two is NaN.                          *)
(***************************************************************************)
Lt(a, b) == a.day # NaNNum /\ b.day # NaNNum /\ a.day < b.day

RECURSIVE AscendingRun(_, _)
AscendingRun(s, n) ==
    IF n < Len(s) /\ ~Lt(s[n + 1], s[n]) THEN AscendingRun(s, n + 1) ELSE n

RECURSIVE DescendingRun(_, _)
DescendingRun(s, n) ==
    IF n < Len(s) /\ Lt(s[n + 1], s[n]) THEN DescendingRun(s, n + 1) ELSE n

Reverse(s) == [i \in 1..Len(s) |-> s[Len(s) + 1 - i]]

\* The list with its leading run in ascending order, and the run's length.
CountRun(s) ==
    IF Len(s) < 2 THEN [list |-> s, n |-> Len(s)]
    ELSE IF Lt(s[2], s[1])
         THEN LET n == DescendingRun(s, 2)
              IN  [list |-> Reverse(SubSeq(s, 1, n)) \o SubSeq(s, n + 1, Len(s)),
                   n |-> n]
         ELSE [list |-> s, n |-> AscendingRun(s, 2)]

\* Where binary insertion puts pivot among s[l..r-1].
RECURSIVE InsertionPoint(_, _, _, _)
InsertionPoint(s, pivot, l, r) ==
    IF l >= r THEN l
    ELSE LET p == l + ((r - l) \div 2)
         IN  IF Lt(pivot, s[p]) THEN InsertionPoint(s, pivot, l, p)
             ELSE InsertionPoint(s, pivot, p + 1, r)

RECURSIVE BinarySort(_, _)
BinarySort(s, start) ==
    IF start > Len(s) THEN s
    ELSE LET pivot == s[start]
             l == InsertionPoint(s, pivot, 1, start)
         IN  BinarySort(SubSeq(s, 1, l - 1) \o <<pivot>> \o SubSeq(s, l, start - 1)
                          \o SubSeq(s, start + 1, Len(s)),
                        start + 1)

Sorted(s) == LET run == CountRun(s) IN BinarySort(run.list, run.n + 1)

\* The loop that sorts every agent's list by day.
SortAll(am) == [k \in DOMAIN am |-> Sorted(am[k])]

ExceptReturn_Partial(am) == am

\* except Exception: return {} -- whatever agent_movements holds by then.
ExceptReturn(am) == EmptyMap

RECURSIVE ParseFrom_KeepsLoaded(_, _, _)
ParseFrom_KeepsLoaded(am, f, k) ==
    IF k > NumChunks(f) THEN SortAll(am)
    ELSE IF ChunkRaises(f, k) THEN SortAll(am)
    ELSE ParseFrom_KeepsLoaded(LoadChunkRows(am, f, k), f, k + 1)

\* The function as a whole: {} when a chunk raises, else the sorted mapping.
RECURSIVE ParseFrom(_, _, _)
ParseFrom(am, f, k) ==
    IF k > NumChunks(f) THEN SortAll(am)
    ELSE IF ChunkRaises(f, k) THEN ExceptReturn(am)
    ELSE ParseFrom(LoadChunkRows(am, f, k), f, k + 1)

NewMovements_Kept(previous) == previous

\* agent_movements = defaultdict(list): every call starts from a mapping of its
\* own, whatever an earlier call built.
NewMovements(previous) == EmptyMap

ParseAgentsFile(f) ==
    IF NumChunks(f) = 0 /\ f.fail_at = 1 THEN EmptyMap
    ELSE ParseFrom(NewMovements(agent_movements), f, 1)

\* The next chunk is read and processed, or raises: the except branch returns {}.
LoadChunk ==
    /\ load_pc = "chunks"
    /\ chunk_count < NumChunks(file)
    /\ chunk_count' = chunk_count + 1
    /\ IF ChunkRaises(file, chunk_count + 1)
       THEN /\ parsed' = ExceptReturn(agent_movements)
            /\ load_pc' = "raised"
            /\ UNCHANGED agent_movements
       ELSE /\ agent_movements' = LoadChunkRows(agent_movements, file, chunk_count + 1)
            /\ UNCHANGED <<parsed, load_pc>>
    /\ UNCHANGED <<file, ctp_locals, pit_vars, other_vars>>

\* A file that cannot be opened or has no header: read_csv raises before any chunk.
LoadOpenFails ==
    /\ load_pc = "chunks"
    /\ chunk_count = 0
    /\ NumChunks(file) = 0
    /\ file.fail_at = 1
    /\ parsed' = ExceptReturn(agent_movements)
    /\ load_pc' = "raised"
    /\ UNCHANGED <<agent_movements, file, chunk_count, ctp_locals, pit_vars, other_vars>>

\* After the last chunk: every list is sorted and the mapping is returned.
LoadSortReturn ==
    /\ load_pc = "chunks"
    /\ chunk_count = NumChunks(file)
    /\ ~(NumChunks(file) = 0 /\ file.fail_at = 1)
    /\ agent_movements' = SortAll(agent_movements)
    /\ parsed' = agent_movements'
    /\ load_pc' = "returned"
    /\ UNCHANGED <<file, chunk_count, ctp_locals, pit_vars, other_vars>>

NoFile == [header |-> {}, rows |-> <<>>, fail_at |-> 0]

LoadIdle ==
    /\ file = NoFile
    /\ load_pc = "idle"
    /\ chunk_count = 0
    /\ parsed = EmptyMap

\* clean_location_name is called on the value it was given or last returned.
CleanApply ==
    /\ clean_pc = "call"
    /\ Len(clean_returns) < 2
    /\ clean_returns' =
          Append(clean_returns,
                 clean_location_name(IF clean_returns = <<>> THEN raw_location
                                     ELSE clean_returns[Len(clean_returns)]))
    /\ UNCHANGED <<raw_location, clean_pc, ctp_vars, load_vars, pit_vars, main_vars,
                   set_vars, plot_vars>>

CleanIdle ==
    /\ raw_location = <<>>
    /\ clean_returns = <<>>
    /\ clean_pc = "idle"

(***************************************************************************)
(* process_instance_type                                                   *)
(*                                                                         *)
(* An entry of the results directory is the directory                      *)
(* <instance>_run_<suffix>, with or without the file agents.out.0 in it.   *)
(* Its suffix holds no underscore and is kept as the sequence of its       *)
(* characters, a digit as its value and a letter as its character code.    *)
(* Probabilities are exact quotients; std_prob is kept as its square, the  *)
(* sample variance.                                                        *)
(***************************************************************************)
\* Sample artifacts: no data rows; one agent that goes camp -> Cox's Bazar; two
\* agents of which one does; one agent that never does; a file that fails to read.
AgentsRow(t, id, loc) ==
    RowOf({"#time", "rank-agentid", "current_location"}, id, t, loc)

SittweCell == <<"L", ":", "Rakhine", ":", "Sittwe">>

AgentsFile(rows, fail_at) ==
    [header |-> {"#time", "rank-agentid", "current_location"},
     rows |-> rows, fail_at |-> fail_at]

HeaderOnlyFile == AgentsFile(<<>>, 0)

OneOfOneFile ==
    AgentsFile(<<AgentsRow(1, AgentKey(1), SittweCell),
                 AgentsRow(2, AgentKey(1), <<COXS_BAZAR>>)>>, 0)

OneOfTwoFile ==
    AgentsFile(<<AgentsRow(1, AgentKey(1), SittweCell),
                 AgentsRow(1, AgentKey(2), <<COXS_BAZAR>>),
                 AgentsRow(2, AgentKey(1), <<COXS_BAZAR>>)>>, 0)

NoneOfOneFile == AgentsFile(<<AgentsRow(1, AgentKey(1), <<COXS_BAZAR>>)>>, 0)

UnreadableFile == AgentsFile(<<AgentsRow(1, AgentKey(1), SittweCell)>>, 1)

\* A file whose second chunk fails to read, after a first chunk of one agent.
PartlyReadFile ==
    AgentsFile([i \in 1..(ChunkSize + 1) |-> AgentsRow(i, AgentKey(1), SittweCell)], 2)

\* A file of `total` agents, all seen in a camp on day 1, the first `moved` of
\* them in Cox's Bazar on day 2.
FileOf(total, moved) ==
    AgentsFile([i \in 1..(total + moved) |->
                  IF i <= total THEN AgentsRow(1, AgentKey(i), SittweCell)
                  ELSE AgentsRow(2, AgentKey(i - total), <<COXS_BAZAR>>)], 0)

SampleFiles ==
    {HeaderOnlyFile, OneOfOneFile, OneOfTwoFile, NoneOfOneFile, UnreadableFile,
     FileOf(5, 1), FileOf(5, 2), FileOf(5, 3)}

RunSuffixes == {<<1>>, <<2>>, <<1, 0>>}

\* The suffix "old".
OldSuffix == <<111, 108, 100>>

\* An instance name cut at its underscores.
NameTokens(instance) ==
    CASE instance = "myanmar2017" -> <<"myanmar2017">>
      [] instance = "myanmar2017_demo" -> <<"myanmar2017", "_", "demo">>
      [] instance = "myanmar2017_network" -> <<"myanmar2017", "_", "network">>

\* The name of an entry up to its suffix.
NameHead(instance) == NameTokens(instance) \o <<"_", "run", "_">>

IsPrefix(p, s) == Len(p) <= Len(s) /\ SubSeq(s, 1, Len(p)) = p

\* glob(f"{instance_type}_run_*"): the entries whose name starts with
\* <instance_type>_run_, whatever follows.
Glob(dir, instance) ==
    {e \in dir : IsPrefix(NameHead(instance), NameHead(e.instance))}

\* Order of two strings of digits as Python compares strings.
RECURSIVE LexLess(_, _)
LexLess(a, b) ==
    IF a = <<>> THEN b # <<>>
    ELSE IF b = <<>> THEN FALSE
    ELSE IF Head(a) # Head(b) THEN Head(a) < Head(b)
    ELSE LexLess(Tail(a), Tail(b))

\* sorted(run_dirs): the paths differ in their suffix only.
RECURSIVE SortedDirs(_)
SortedDirs(S) ==
    IF S = {} THEN <<>>
    ELSE LET first == CHOOSE e \in S :
                        \A o \in S \ {e} : LexLess(e.suffix, o.suffix)
         IN  <<first>> \o SortedDirs(S \ {first})

\* os.path.basename(run_dir).split('_')[-1]
RunNumber(e) == e.suffix

PathExists_Always(run_dir) == TRUE

\* os.path.exists(agents_file)
PathExists(run_dir) == run_dir.has_agents_file

SkipsRun_Never(am) == FALSE

\* if not agent_movements
SkipsRun(am) == DOMAIN am = {}

\* Quotients, kept in lowest terms.
RECURSIVE Gcd(_, _)
Gcd(a, b) == IF b = 0 THEN a ELSE Gcd(b, a % b)

Abs(x) == IF x < 0 THEN -x ELSE x

Reduce(q) ==
    LET g == Gcd(Abs(q.num), q.den)
    IN  [num |-> q.num \div g, den |-> q.den \div g]

RatAdd(a, b) == Reduce([num |-> a.num * b.den + b.num * a.den, den |-> a.den * b.den])
RatSub(a, b) == Reduce([num |-> a.num * b.den - b.num * a.den, den |-> a.den * b.den])
RatMul(a, b) == Reduce([num |-> a.num * b.num, den |-> a.den * b.den])
RatDivInt(a, n) == Reduce([num |-> a.num, den |-> a.den * n])

RECURSIVE RatSum(_)
RatSum(ps) == IF ps = <<>> THEN ZeroFloat ELSE RatAdd(Head(ps), RatSum(Tail(ps)))

\* np.mean(transition_probabilities)
Mean(ps) == RatDivInt(RatSum(ps), Len(ps))

SampleVariance_Population(ps) ==
    RatDivInt(RatSum([i \in 1..Len(ps) |->
                        RatMul(RatSub(ps[i], Mean(ps)), RatSub(ps[i], Mean(ps)))]),
              Len(ps))

\* np.std(transition_probabilities, ddof=1), squared.
SampleVariance(ps) ==
    RatDivInt(RatSum([i \in 1..Len(ps) |->
                        RatMul(RatSub(ps[i], Mean(ps)), RatSub(ps[i], Mean(ps)))]),
              Len(ps) - 1)

StdSquared(ps) == IF Len(ps) > 1 THEN SampleVariance(ps) ELSE ZeroFloat

NoneResult ==
    [is_none |-> TRUE, mean_prob |-> ZeroFloat, std_prob_squared |-> ZeroFloat,
     transition_probabilities |-> <<>>]

\* The directory is listed; with no run directory the function returns None.
PitGlob ==
    /\ pit_pc = "entry"
    /\ run_dirs' = SortedDirs(Glob(results_dir, instance_type))
    /\ IF run_dirs' = <<>>
       THEN /\ pit_return' = NoneResult
            /\ pit_pc' = "returned"
       ELSE /\ pit_pc' = "runs"
            /\ UNCHANGED pit_return
    /\ transition_probabilities' = <<>>
    /\ run_index' = 0
    /\ UNCHANGED <<instance_type, results_dir, warnings, ctp_vars, load_vars, other_vars>>

\* One iteration of the loop over the run directories.
PitRun ==
    /\ pit_pc = "runs"
    /\ run_index < Len(run_dirs)
    /\ run_index' = run_index + 1
    /\ LET run_dir == run_dirs[run_index + 1]
           run_number == RunNumber(run_dir)
           am == ParseAgentsFile(run_dir.agents)
           result == CalculateTransitionProbability(am)
       IN  IF ~PathExists(run_dir)
           THEN /\ warnings' = Append(warnings, [run |-> run_number,
                                                 what |-> "agents.out.0 not found"])
                /\ UNCHANGED <<transition_probabilities, agent_movements,
                               transition_probability, transition_agents, total_agents>>
           ELSE /\ agent_movements' = am
                /\ IF SkipsRun(am)
                   THEN /\ warnings' = Append(warnings,
                                              [run |-> run_number,
                                               what |-> "No agent movements found"])
                        /\ UNCHANGED <<transition_probabilities, transition_probability,
                                       transition_agents, total_agents>>
                   ELSE /\ transition_probability' = result.transition_probability
                        /\ transition_agents' = result.transition_agents
                        /\ total_agents' = result.total_agents
                        /\ transition_probabilities' =
                              Append(transition_probabilities,
                                     result.transition_probability)
                        /\ UNCHANGED warnings
    /\ UNCHANGED <<instance_type, results_dir, run_dirs, pit_pc, pit_return,
                   ctp_pc, remaining, agent_id, pos, went_to_idp_first,
                   went_to_coxs_after_idp, load_vars, other_vars>>

\* After the loop: None without a probability, else the statistics.
PitReturn ==
    /\ pit_pc = "runs"
    /\ run_index = Len(run_dirs)
    /\ pit_return' =
          IF transition_probabilities = <<>> THEN NoneResult
          ELSE [is_none |-> FALSE,
                mean_prob |-> Mean(transition_probabilities),
                std_prob_squared |-> StdSquared(transition_probabilities),
                transition_probabilities |-> transition_probabilities]
    /\ pit_pc' = "returned"
    /\ UNCHANGED <<instance_type, results_dir, run_dirs, run_index,
                   transition_probabilities, warnings, ctp_vars, load_vars, other_vars>>

PitIdle ==
    /\ instance_type = "myanmar2017"
    /\ results_dir = {}
    /\ run_dirs = <<>>
    /\ run_index = 0
    /\ transition_probabilities = <<>>
    /\ warnings = <<>>
    /\ pit_pc = "idle"
    /\ pit_return = NoneResult

EmptyResults == [k \in {} |-> NoneResult]

MainIdle ==
    /\ results_dir_exists = TRUE
    /\ main_pc = "idle"
    /\ instance_index = 0
    /\ results = EmptyResults
    /\ summary_data = <<>>
    /\ detailed_data = <<>>
    /\ saved = {}
    /\ exit_status = <<>>

(***************************************************************************)
(* scale_errors_to_01 of plot_scaled_error.py.  A value of the array is a  *)
(* record: a finite number num/den, NaN, or one of the two infinities.     *)
(***************************************************************************)
ScaleRuns == 2
ScaleDays == 1
ScaleLocations == 2
MaxError == 2

Num(n) == [kind |-> "num", num |-> n, den |-> 1]
Frac(q) == [kind |-> "num", num |-> q.num, den |-> q.den]
NaNValue == [kind |-> "nan", num |-> 0, den |-> 1]
PosInf == [kind |-> "inf", num |-> 0, den |-> 1]
NegInf == [kind |-> "-inf", num |-> 0, den |-> 1]

\* The values an array of the dtype may hold: an array of integers has no NaN
\* and no infinity.
ValuesOf(dt) ==
    {Num(n) : n \in 0..MaxError} \cup (IF dt = "float64" THEN {NaNValue, PosInf, NegInf} ELSE {})

IndexOf(shp) == (1..shp.runs) \X (1..shp.days) \X (1..shp.locations)

\* np.zeros_like(data_array)
ZerosLike(arr) == [i \in DOMAIN arr |-> Num(0)]

\* data_array[:, :, location_idx]
LocationData(arr, shp, l) ==
    [c \in (1..shp.runs) \X (1..shp.days) |-> arr[<<c[1], c[2], l>>]]

\* np.isfinite
IsFinite(x) == x.kind = "num"

\* location_data[np.isfinite(location_data)], as the set of its values
ValidValues(ld) == {ld[c].num : c \in {d \in DOMAIN ld : IsFinite(ld[d])}}

SetMin(S) == CHOOSE x \in S : \A y \in S : x <= y
SetMax(S) == CHOOSE x \in S : \A y \in S : x >= y

\* Storing a value in an array of the dtype: an array of integers truncates it.
Cast(x, dt) ==
    IF dt = "int64" /\ IsFinite(x) THEN Num(x.num \div x.den) ELSE x

\* (x - location_min) / (location_max - location_min) on one value: NaN stays NaN
\* and an infinity stays the infinity, the divisor being finite and positive.
MinMax(x, lo, hi) ==
    IF IsFinite(x) THEN Frac(Reduce([num |-> x.num - lo, den |-> hi - lo])) ELSE x

\* np.full_like(location_data, 0.5): every cell, whatever it held.
FullLike(ld, dt) == [c \in DOMAIN ld |-> Cast(Frac([num |-> 1, den |-> 2]), dt)]

\* The body of the loop over the locations: what is stored in column l.
ScaledLocation(ld, dt) ==
    IF ValidValues(ld) = {} THEN ld
    ELSE LET location_min == SetMin(ValidValues(ld))
             location_max == SetMax(ValidValues(ld))
         IN  IF location_max = location_min THEN FullLike(ld, dt)
             ELSE [c \in DOMAIN ld |-> Cast(MinMax(ld[c], location_min, location_max), dt)]

\* np.clip(x, 0, 1) on one value: NaN is neither below 0 nor above 1 and stays.
Clip(x) ==
    IF x.kind = "nan" THEN x
    ELSE IF x.kind = "inf" THEN Num(1)
    ELSE IF x.kind = "-inf" THEN Num(0)
    ELSE IF x.num < 0 THEN Num(0)
    ELSE IF x.num > x.den THEN Num(1)
    ELSE x

\* The function as a whole.
ScaleErrorsTo01(arr, shp, dt) ==
    [i \in DOMAIN arr |->
        Clip(ScaledLocation(LocationData(arr, shp, i[3]), dt)[<<i[1], i[2]>>])]

\* One iteration of the loop over the locations.
ScaleLocation ==
    /\ scale_pc = "locations"
    /\ location_idx < shape.locations
    /\ LET l == location_idx + 1
           column == ScaledLocation(LocationData(data_array, shape, l), dtype)
       IN  scaled_array' = [i \in DOMAIN scaled_array |->
                               IF i[3] = l THEN column[<<i[1], i[2]>>]
                               ELSE scaled_array[i]]
    /\ location_idx' = location_idx + 1
    /\ UNCHANGED <<data_array, shape, dtype, scale_pc>>
    /\ UNCHANGED <<ctp_vars, load_vars, pit_vars, main_vars, clean_vars, set_vars,
                   batch_vars>>

\* After the loop: the array is clipped and returned.
ScaleClipReturn ==
    /\ scale_pc = "locations"
    /\ location_idx = shape.locations
    /\ scaled_array' = [i \in DOMAIN scaled_array |-> Clip(scaled_array[i])]
    /\ scale_pc' = "returned"
    /\ UNCHANGED <<data_array, shape, dtype, location_idx>>
    /\ UNCHANGED <<ctp_vars, load_vars, pit_vars, main_vars, clean_vars, set_vars,
                   batch_vars>>

ScaleIdle ==
    /\ shape = [runs |-> 0, days |-> 0, locations |-> 0]
    /\ dtype = "float64"
    /\ data_array = [i \in IndexOf(shape) |-> Num(0)]
    /\ scaled_array = ZerosLike(data_array)
    /\ location_idx = 0
    /\ scale_pc = "idle"

(***************************************************************************)
(* main of plot_error.py, over analyze_instance; main of                   *)
(* plot_scaled_error.py has the same loop.                                 *)
(***************************************************************************)
ErrRuns == 2

instance_names == <<"myanmar2017", "myanmar2017_demo", "myanmar2017_network">>

\* out.csv of a run: not there, there but extract_error_data returns None, or read.
RunStatus == {"missing", "unreadable", "loaded"}

\* collect_all_runs_data: the run numbers that have a DataFrame in runs_data.
CollectAllRunsData(instance_name) ==
    {run_num \in 1..ErrRuns : out_csv[instance_name][run_num] = "loaded"}

\* analyze_instance: a bare return without run data, an exception out of the
\* plotting, or the two DataFrames.
AnalyzeInstance(instance_name) ==
    LET runs_data == CollectAllRunsData(instance_name)
    IN  IF runs_data = {} THEN [kind |-> "None", exception |-> "-"]
        ELSE IF plot_fails[instance_name]
             THEN [kind |-> "raised", exception |-> "RuntimeError"]
             ELSE [kind |-> "tuple", exception |-> "-"]

\* mean_df, std_df = <the value returned>: unpacking None raises TypeError.
Unpack(ret) ==
    IF ret.kind = "None" THEN [ret EXCEPT !.kind = "raised", !.exception = "TypeError"]
    ELSE ret

Caught_Nothing(exception) == FALSE

\* except Exception
Caught(exception) == exception \in {"TypeError", "RuntimeError"}

\* The start of main, up to the loop: the check of the base path.
BatchStart ==
    /\ batch_pc = "entry"
    /\ batch_pc' = IF base_path_exists THEN "instances" ELSE "returned"
    /\ UNCHANGED <<base_path_exists, out_csv, plot_fails, batch_index, analyze_return,
                   all_results, analysed, batch_errors>>
    /\ UNCHANGED <<ctp_vars, load_vars, pit_vars, main_vars, clean_vars, set_vars,
                   scale_vars>>

\* The call of analyze_instance in the try.
BatchAnalyze ==
    /\ batch_pc = "instances"
    /\ batch_index < Len(instance_names)
    /\ analyze_return' = AnalyzeInstance(instance_names[batch_index + 1])
    /\ analysed' = Append(analysed, instance_names[batch_index + 1])
    /\ batch_pc' = "called"
    /\ UNCHANGED <<base_path_exists, out_csv, plot_fails, batch_index, all_results,
                   batch_errors>>
    /\ UNCHANGED <<ctp_vars, load_vars, pit_vars, main_vars, clean_vars, set_vars,
                   scale_vars>>

\* The rest of the try and its handler: the value is unpacked and kept, or the
\* exception is caught and the loop continues.
BatchKeep ==
    /\ batch_pc = "called"
    /\ LET instance_name == instance_names[batch_index + 1]
           got == Unpack(analyze_return)
       IN  IF got.kind = "raised"
           THEN /\ UNCHANGED all_results
                /\ IF Caught(got.exception)
                   THEN /\ batch_errors' = Append(batch_errors, instance_name)
                        /\ batch_index' = batch_index + 1
                        /\ batch_pc' = "instances"
                   ELSE /\ batch_pc' = "aborted"
                        /\ UNCHANGED <<batch_errors, batch_index>>
           ELSE /\ all_results' = all_results \cup {instance_name}
                /\ batch_index' = batch_index + 1
                /\ batch_pc' = "instances"
                /\ UNCHANGED batch_errors
    /\ UNCHANGED <<base_path_exists, out_csv, plot_fails, analyze_return, analysed>>
    /\ UNCHANGED <<ctp_vars, load_vars, pit_vars, main_vars, clean_vars, set_vars,
                   scale_vars>>

\* After the loop: the summary is printed and main returns.
BatchSummary ==
    /\ batch_pc = "instances"
    /\ batch_index = Len(instance_names)
    /\ batch_pc' = "returned"
    /\ UNCHANGED <<base_path_exists, out_csv, plot_fails, batch_index, analyze_return,
                   all_results, analysed, batch_errors>>
    /\ UNCHANGED <<ctp_vars, load_vars, pit_vars, main_vars, clean_vars, set_vars,
                   scale_vars>>

InstanceNames == {instance_names[i] : i \in 1..Len(instance_names)}

BatchIdle ==
    /\ base_path_exists = TRUE
    /\ out_csv = [k \in InstanceNames |-> [r \in 1..ErrRuns |-> "missing"]]
    /\ plot_fails = [k \in InstanceNames |-> FALSE]
    /\ batch_pc = "idle"
    /\ batch_index = 0
    /\ analyze_return = [kind |-> "None", exception |-> "-"]
    /\ all_results = {}
    /\ analysed = <<>>
    /\ batch_errors = <<>>

PlotIdle == ScaleIdle /\ BatchIdle

\* The entries that may lie next to the numbered run directories of the instance:
\* a directory myanmar2017_run_old and run 1 of another instance.
StrayEntries ==
    { [instance |-> "myanmar2017", suffix |-> OldSuffix,
       has_agents_file |-> TRUE, agents |-> OneOfOneFile],
      [instance |-> "myanmar2017", suffix |-> OldSuffix,
       has_agents_file |-> FALSE, agents |-> NoFile],
      [instance |-> "myanmar2017_demo", suffix |-> <<1>>,
       has_agents_file |-> TRUE, agents |-> OneOfOneFile] }

\* A results directory with any of the run directories, each with or without its
\* agents file, and at most one of the other entries.
PitInit ==
    /\ instance_type = "myanmar2017"
    /\ \E present \in SUBSET RunSuffixes :
         \E agents \in [present -> SampleFiles \cup {NoFile}] :
           \E stray \in {{}} \cup {{e} : e \in StrayEntries} :
             results_dir = {[instance |-> instance_type, suffix |-> x,
                             has_agents_file |-> agents[x] # NoFile,
                             agents |-> agents[x]] :
                              x \in present} \cup stray
    /\ run_dirs = <<>>
    /\ run_index = 0
    /\ transition_probabilities = <<>>
    /\ warnings = <<>>
    /\ pit_pc = "entry"
    /\ pit_return = NoneResult
    /\ agent_movements = EmptyMap
    /\ CtpIdle
    /\ SetIdle
    /\ LoadIdle
    /\ CleanIdle
    /\ PlotIdle
    /\ MainIdle

PitNext == PitGlob \/ PitRun \/ PitReturn

SpecAgg == PitInit /\ [][PitNext]_vars

(***************************************************************************)
(* main                                                                    *)
(*                                                                         *)
(* One step per call of process_instance_type, whose steps are those of    *)
(* the aggregator above, one per statistics entry and one per table.       *)
(***************************************************************************)
instance_types == <<"myanmar2017", "myanmar2017_demo", "myanmar2017_network">>

\* The two tables main saves.
summary_file == "transition_probability_summary.csv"
detailed_file == "transition_probability_detailed.csv"

AfterCheck_GoesOn(exists) == "instances"

\* if not results_dir.exists(): sys.exit(1)
AfterCheck(exists) == IF exists THEN "instances" ELSE "exit"

\* The start of main, up to the loop: the check of the results directory.
MainStart ==
    /\ main_pc = "entry"
    /\ main_pc' = AfterCheck(results_dir_exists)
    /\ exit_status' = IF main_pc' = "exit" THEN <<1>> ELSE exit_status
    /\ results' = EmptyResults
    /\ UNCHANGED <<results_dir_exists, saved, instance_index, summary_data, detailed_data,
                   ctp_vars, load_vars, pit_vars, clean_vars, set_vars, plot_vars>>

\* The loop over instance_types calls process_instance_type.
MainCall ==
    /\ main_pc = "instances"
    /\ instance_index < Len(instance_types)
    /\ instance_type' = instance_types[instance_index + 1]
    /\ pit_pc' = "entry"
    /\ run_dirs' = <<>>
    /\ run_index' = 0
    /\ transition_probabilities' = <<>>
    /\ warnings' = <<>>
    /\ pit_return' = NoneResult
    /\ main_pc' = "called"
    /\ UNCHANGED <<results_dir, results_dir_exists, saved, exit_status, instance_index,
                   results,
                   summary_data, detailed_data, ctp_vars, load_vars, clean_vars,
                   set_vars, plot_vars>>

ResultsEntry(ret) ==
    [mean |-> ret.mean_prob,
     std_squared |-> ret.std_prob_squared,
     all_probabilities |-> ret.transition_probabilities,
     num_runs |-> Len(ret.transition_probabilities)]

Keeps_Always(ret) == TRUE

Keeps_Truthy(ret) == ~ret.is_none /\ ret.mean_prob.num # 0

\* if mean_prob is not None
Keeps(ret) == ~ret.is_none

\* The call has returned: its statistics are stored unless they are None.
MainCollect ==
    /\ main_pc = "called"
    /\ pit_pc = "returned"
    /\ results' =
          IF Keeps(pit_return)
          THEN [k \in DOMAIN results \cup {instance_type} |->
                  IF k = instance_type THEN ResultsEntry(pit_return) ELSE results[k]]
          ELSE results
    /\ instance_index' = instance_index + 1
    /\ main_pc' = "instances"
    /\ UNCHANGED <<results_dir_exists, saved, exit_status, summary_data, detailed_data,
                   ctp_vars,
                   load_vars, pit_vars, clean_vars, set_vars, plot_vars>>

\* results.items(): the keys in the order they were inserted.
RECURSIVE ItemsFrom(_, _)
ItemsFrom(res, i) ==
    IF i > Len(instance_types) THEN <<>>
    ELSE (IF instance_types[i] \in DOMAIN res THEN <<instance_types[i]>> ELSE <<>>)
         \o ItemsFrom(res, i + 1)

Items(res) == ItemsFrom(res, 1)

SummaryRow(res, k) ==
    [Instance |-> k,
     Mean_Transition_Probability |-> res[k].mean,
     Std_Transition_Probability_Squared |-> res[k].std_squared,
     Number_of_Runs |-> res[k].num_runs]

\* enumerate(result['all_probabilities'], 1)
DetailRows(res, k) ==
    [i \in 1..Len(res[k].all_probabilities) |->
        [Instance |-> k, Run |-> i,
         Transition_Probability |-> res[k].all_probabilities[i]]]

RECURSIVE Concat(_)
Concat(ss) == IF ss = <<>> THEN <<>> ELSE Head(ss) \o Concat(Tail(ss))

\* After the loop: the summary table is built and saved.
MainSummary ==
    /\ main_pc = "instances"
    /\ instance_index = Len(instance_types)
    /\ summary_data' = [i \in 1..Len(Items(results)) |->
                           SummaryRow(results, Items(results)[i])]
    /\ saved' = saved \cup {summary_file}
    /\ main_pc' = "summary_saved"
    /\ UNCHANGED <<results_dir_exists, exit_status, instance_index, results, detailed_data,
                   ctp_vars, load_vars, pit_vars, clean_vars, set_vars, plot_vars>>

\* The detail table is built and saved.
MainDetail ==
    /\ main_pc = "summary_saved"
    /\ detailed_data' = Concat([i \in 1..Len(Items(results)) |->
                                   DetailRows(results, Items(results)[i])])
    /\ saved' = saved \cup {detailed_file}
    /\ exit_status' = <<0>>
    /\ main_pc' = "done"
    /\ UNCHANGED <<results_dir_exists, instance_index, results, summary_data,
                   ctp_vars, load_vars, pit_vars, clean_vars, set_vars, plot_vars>>

MainSuffixes == {<<1>>, <<2>>}

MainFiles == {NoFile, PartlyReadFile, NoneOfOneFile, OneOfTwoFile}

\* The run directories of one instance type.
RunDirsOf(instance, agents) ==
    {[instance |-> instance, suffix |-> x,
      has_agents_file |-> agents[x] # NoFile, agents |-> agents[x]] :
        x \in DOMAIN agents}

\* A results directory with, for each instance type, any of its run directories,
\* each with or without a readable agents file; or no results directory.
MainInit ==
    /\ \/ /\ results_dir_exists = TRUE
          /\ \E p1 \in SUBSET MainSuffixes, p2 \in SUBSET MainSuffixes,
                p3 \in SUBSET MainSuffixes :
                \E a1 \in [p1 -> MainFiles], a2 \in [p2 -> MainFiles],
                   a3 \in [p3 -> MainFiles] :
                  results_dir = RunDirsOf(instance_types[1], a1)
                                   \cup RunDirsOf(instance_types[2], a2)
                                   \cup RunDirsOf(instance_types[3], a3)
       \/ /\ results_dir_exists = FALSE
          /\ results_dir = {}
    /\ main_pc = "entry"
    /\ instance_index = 0
    /\ results = EmptyResults
    /\ summary_data = <<>>
    /\ detailed_data = <<>>
    /\ saved = {}
    /\ exit_status = <<>>
    /\ instance_type = instance_types[1]
    /\ run_dirs = <<>>
    /\ run_index = 0
    /\ transition_probabilities = <<>>
    /\ warnings = <<>>
    /\ pit_pc = "idle"
    /\ pit_return = NoneResult
    /\ agent_movements = EmptyMap
    /\ CtpIdle
    /\ SetIdle
    /\ LoadIdle
    /\ CleanIdle
    /\ PlotIdle

MainNext == MainStart \/ MainCall \/ PitNext \/ MainCollect \/ MainSummary \/ MainDetail

SpecMain == MainInit /\ [][MainNext]_vars

(***************************************************************************)
(* The initial states and the specifications of the classifier, the       *)
(* loader and the normalizer.                                              *)
(***************************************************************************)
\* The largest chunk number of a file of n rows; a file of no rows can still fail
\* to open.
LastChunk(n) == IF n = 0 THEN 1 ELSE (n + ChunkSize - 1) \div ChunkSize

LoadInit ==
    /\ \E header \in Headers, n \in 0..MaxRows :
         \E cells \in [1..n -> IdCells \X TimeCells \X LocationCells],
            k \in 0..LastChunk(n) :
           file = [header |-> header,
                   rows |-> [i \in 1..n |->
                               RowOf(header, cells[i][1], cells[i][2], cells[i][3])],
                   fail_at |-> k]
    /\ load_pc = "chunks"
    /\ chunk_count = 0
    /\ parsed = EmptyMap
    /\ agent_movements = EmptyMap
    /\ CtpIdle
    /\ SetIdle
    /\ PitIdle
    /\ CleanIdle
    /\ PlotIdle
    /\ MainIdle

LoadNext == LoadChunk \/ LoadOpenFails \/ LoadSortReturn

SpecLoad == LoadInit /\ [][LoadNext]_vars

\* The mappings the classifier is called on, the empty one among them: every
\* agent of the mapping has at least one record (the loader creates an entry only
\* by appending to it), and each history is in time order.
\* The locations of the records of a history: the labels above and the NaN of a
\* row whose location cell is empty.
Observed == Locations \cup {NaNStr}

CtpInit ==
    /\ \E D \in SUBSET (1..MaxAgents) :
         \E L \in {l \in [D -> 1..MaxRecords] : SumTo(l, MaxAgents) <= MaxRecords} :
           \E flat \in [1..SumTo(L, MaxAgents) -> Observed] :
             agent_movements =
               [k \in {AgentKey(i) : i \in D} |->
                  LET i == CHOOSE j \in D : AgentKey(j) = k
                  IN  [n \in 1..L[i] |->
                         [day |-> n, location |-> flat[SumTo(L, i - 1) + n]]]]
    /\ CtpIdle
    /\ SetIdle
    /\ LoadIdle
    /\ PitIdle
    /\ CleanIdle
    /\ PlotIdle
    /\ MainIdle

CtpNext == CtpEntry \/ CtpNextAgent \/ CtpMovement \/ CtpAgentEnd \/ CtpReturn

SpecCtp == CtpInit /\ [][CtpNext]_vars

\* The classifier under any assignment of its two sets over the labels of
\* Locations, the sets of lines 86-89 and overlapping ones among them, on the
\* mappings of one agent.
SetsInit ==
    /\ idp_camps \in SUBSET Locations
    /\ coxs_bazar \in Locations
    /\ \E n \in 0..MaxRecords : \E h \in [1..n -> Locations] :
         agent_movements =
           [k \in {AgentKey(1)} |-> [i \in 1..n |-> [day |-> i, location |-> h[i]]]]
    /\ CtpIdle
    /\ LoadIdle
    /\ PitIdle
    /\ CleanIdle
    /\ PlotIdle
    /\ MainIdle

SetsNext == CtpEntry \/ CtpNextAgent \/ CtpMovementIn \/ CtpAgentEnd \/ CtpReturn

SpecSets == SetsInit /\ [][SetsNext]_vars

\* clean_location_name on its own: a string cut at its colons, of at most
\* MaxTokens pieces, or a plain name, or a missing value (NaN, None).
Segments == {"L", "A", "B", "C"}

\* No two segments are adjacent: the pieces are those of one string.
CutAtColons(s) ==
    \A i \in 1..(Len(s) - 1) : s[i] = ":" \/ s[i + 1] = ":"

CleanInit ==
    /\ \/ \E n \in 0..MaxTokens : \E s \in [1..n -> Segments \cup {":"}] :
             CutAtColons(s) /\ raw_location = s
       \/ raw_location \in {<<"PlainName">>, NaNLoc, NoneLoc}
    /\ clean_returns = <<>>
    /\ clean_pc = "call"
    /\ agent_movements = EmptyMap
    /\ CtpIdle
    /\ SetIdle
    /\ LoadIdle
    /\ PitIdle
    /\ MainIdle
    /\ PlotIdle

CleanNext == CleanApply

SpecClean == CleanInit /\ [][CleanNext]_vars

\* The normalizer on its own and within the loader.
SpecNormalize == (CleanInit \/ LoadInit) /\ [][CleanNext \/ LoadNext]_vars

\* Arrays of every shape up to the bounds, of floats with any of the values or
\* of integers.
ScaleInit ==
    /\ \E r \in 1..ScaleRuns, d \in 1..ScaleDays, l \in 1..ScaleLocations :
         shape = [runs |-> r, days |-> d, locations |-> l]
    /\ dtype \in {"float64", "int64"}
    /\ data_array \in [IndexOf(shape) -> ValuesOf(dtype)]
    /\ scaled_array = ZerosLike(data_array)
    /\ location_idx = 0
    /\ scale_pc = "locations"
    /\ agent_movements = EmptyMap
    /\ CtpIdle
    /\ SetIdle
    /\ LoadIdle
    /\ PitIdle
    /\ CleanIdle
    /\ MainIdle
    /\ BatchIdle

ScaleNext == ScaleLocation \/ ScaleClipReturn

SpecScale == ScaleInit /\ [][ScaleNext]_vars

\* A base path that exists or not; with it, every run of every instance with any
\* out.csv, and the plotting of any instance failing or not.
BatchInit ==
    /\ base_path_exists \in BOOLEAN
    /\ IF base_path_exists
       THEN /\ out_csv \in [InstanceNames -> [1..ErrRuns -> RunStatus]]
            /\ plot_fails \in [InstanceNames -> BOOLEAN]
       ELSE /\ out_csv = [k \in InstanceNames |-> [r \in 1..ErrRuns |-> "missing"]]
            /\ plot_fails = [k \in InstanceNames |-> FALSE]
    /\ batch_pc = "entry"
    /\ batch_index = 0
    /\ analyze_return = [kind |-> "None", exception |-> "-"]
    /\ all_results = {}
    /\ analysed = <<>>
    /\ batch_errors = <<>>
    /\ agent_movements = EmptyMap
    /\ CtpIdle
    /\ SetIdle
    /\ LoadIdle
    /\ PitIdle
    /\ CleanIdle
    /\ MainIdle
    /\ ScaleIdle

BatchNext == BatchStart \/ BatchAnalyze \/ BatchKeep \/ BatchSummary

SpecBatch == BatchInit /\ [][BatchNext]_vars

(***************************************************************************)
(* Properties of calculate_transition_probability, of specification SpecCtp. *)
(***************************************************************************)
\* The current agent's history, while the loops are on an agent.
OnAgent == ctp_pc \in {"movements", "agent_end"}

History == agent_movements[agent_id]

IsStaging(m) == m.location \in IDP_CAMPS

IsDestination(m) == m.location = COXS_BAZAR

\* There are positions i < j with h[i] in the staging set and h[j] the destination.
StagingThenDestination(h) ==
    \E i \in 1..Len(h) : \E j \in 1..Len(h) :
        i < j /\ IsStaging(h[i]) /\ IsDestination(h[j])

NoStagingIn(h, n) == \A i \in 1..n : ~IsStaging(h[i])

\* The agents whose contribution has been added to transition_agents.
Counted ==
    IF ctp_pc = "entry" THEN {}
    ELSE (DOMAIN agent_movements \ remaining) \ (IF OnAgent THEN {agent_id} ELSE {})

LocationsOf(h) == [i \in 1..Len(h) |-> h[i].location]

\* C1: an agent is classified transitioned exactly when its history has a staging
\* visit at some position i and a destination visit at a later position j; as long
\* as no staging visit has been scanned, both flags keep their initial value,
\* whatever destination visits were scanned.
C1_TransitionedIffStagingThenDestination ==
    OnAgent =>
        /\ ctp_pc = "agent_end" =>
              (went_to_coxs_after_idp <=> StagingThenDestination(History))
        /\ NoStagingIn(History, pos) =>
              (~went_to_idp_first /\ ~went_to_coxs_after_idp)

\* A destination visit precedes the first staging visit and is followed by the pair
\* that decides the agent.
C1_Witness ==
    /\ ctp_pc = "agent_end"
    /\ went_to_coxs_after_idp
    /\ IsDestination(History[1])

\* The position of the first staging visit of h, Len(h) + 1 if it has none.
FirstStaging(h) ==
    IF \E i \in 1..Len(h) : IsStaging(h[i])
    THEN CHOOSE i \in 1..Len(h) :
            IsStaging(h[i]) /\ \A j \in 1..(i - 1) : ~IsStaging(h[j])
    ELSE Len(h) + 1

\* C2 as stated: an agent is classified transitioned only if it visited a staging
\* location before ever visiting a destination location: every destination visit
\* of a transitioned agent comes after a staging visit (so [destination, staging,
\* destination] is not transitioned).
C2_StagingBeforeEverDestination ==
    (ctp_pc = "agent_end" /\ went_to_coxs_after_idp) =>
        \A j \in 1..Len(History) :
            IsDestination(History[j]) =>
                \E i \in 1..(j - 1) : IsStaging(History[i])

\* C2 as amended: a destination visit made before the first staging visit is
\* ignored, it neither counts nor disqualifies: the agent is classified
\* transitioned exactly when a destination visit follows its first staging visit.
\* So [destination, staging, destination] is transitioned, and a history whose
\* destination visits all precede its first staging visit is not.
C2_DestinationAfterFirstStaging ==
    ctp_pc = "agent_end" =>
        /\ went_to_coxs_after_idp <=>
              \E j \in (FirstStaging(History) + 1)..Len(History) :
                  IsDestination(History[j])
        /\ LocationsOf(History) = <<COXS_BAZAR, "Sittwe", COXS_BAZAR>>
              => went_to_coxs_after_idp
        /\ LocationsOf(History) = <<COXS_BAZAR, "Sittwe">>
              => ~went_to_coxs_after_idp

\* [destination, staging, destination] has been scanned to its end and is
\* transitioned.
C2_Witness ==
    /\ ctp_pc = "agent_end"
    /\ LocationsOf(History) = <<COXS_BAZAR, "Sittwe", COXS_BAZAR>>
    /\ pos = 3
    /\ went_to_coxs_after_idp

\* C3: an agent whose history holds no staging visit is never classified
\* transitioned and never counted: transition_agents never exceeds the number of
\* counted agents that have a staging visit.
C3_NoStagingNeverTransitioned ==
    /\ (OnAgent /\ NoStagingIn(History, Len(History))) => ~went_to_coxs_after_idp
    /\ transition_agents <=
          Cardinality({a \in Counted :
                         ~NoStagingIn(agent_movements[a], Len(agent_movements[a]))})

\* An agent with two destination visits and no staging visit has been counted.
C3_Witness ==
    \E a \in Counted :
        /\ Len(agent_movements[a]) >= 2
        /\ \A i \in 1..Len(agent_movements[a]) : IsDestination(agent_movements[a][i])

\* C4: once a prefix of the history is classified transitioned, the whole history
\* is, and the scan stops at the deciding destination visit: no later record is
\* examined.
C4_ShortCircuit ==
    ctp_pc = "agent_end" =>
        /\ \A k \in 1..Len(History) :
              Scan(SubSeq(History, 1, k)).st.went_to_coxs_after_idp =>
                  (went_to_coxs_after_idp /\ pos <= k)
        /\ went_to_coxs_after_idp =>
              Scan(SubSeq(History, 1, pos)).st.went_to_coxs_after_idp

\* [staging, destination, staging, destination] decided at its second record.
C4_Witness ==
    /\ ctp_pc = "agent_end"
    /\ LocationsOf(History) = <<"Sittwe", COXS_BAZAR, "Sittwe", COXS_BAZAR>>
    /\ went_to_coxs_after_idp
    /\ pos = 2

\* C5: every counted agent has added exactly 1 to transition_agents if it is
\* transitioned (a staging visit followed by a destination visit) and exactly 0
\* otherwise, however many such pairs its history holds.
C5_OnePerTransitionedAgent ==
    transition_agents =
        Cardinality({a \in Counted : StagingThenDestination(agent_movements[a])})

\* A run of one agent with [staging, destination], and one whose only agent has
\* two staging-then-destination pairs, each return a count of 1.
C5_Witness ==
    /\ ctp_pc = "returned"
    /\ transition_agents = 1
    /\ \E a \in DOMAIN agent_movements :
          LocationsOf(agent_movements[a]) \in
              {<<"Sittwe", COXS_BAZAR>>, <<"Sittwe", COXS_BAZAR, "Sittwe", COXS_BAZAR>>}

\* C6: the function returns 0 <= transition_agents <= total_agents, total_agents
\* the number of agents of the mapping, 0 <= transition_probability <= 1, and
\* transition_probability = transition_agents / total_agents when total_agents > 0.
C6_ProbabilityBounds ==
    ctp_pc = "returned" =>
        /\ 0 <= transition_agents /\ transition_agents <= total_agents
        /\ total_agents = Cardinality(DOMAIN agent_movements)
        /\ transition_probability.den > 0
        /\ 0 <= transition_probability.num
        /\ transition_probability.num <= transition_probability.den
        /\ total_agents > 0 =>
              transition_probability.num * total_agents =
                  transition_agents * transition_probability.den

\* A run of two agents of which one transitioned: probability 1/2.
C6_Witness ==
    /\ ctp_pc = "returned"
    /\ total_agents = 2
    /\ transition_agents = 1
    /\ transition_probability.num * 2 = transition_probability.den

\* C7: on a mapping with no agents the function returns probability 0.0 with both
\* counters 0 and raises nothing.
C7_EmptyRun ==
    (DOMAIN agent_movements = {} /\ ctp_pc \in {"returned", "raised"}) =>
        /\ ctp_pc = "returned"
        /\ transition_probability = ZeroFloat
        /\ transition_agents = 0
        /\ total_agents = 0

C7_Witness ==
    /\ DOMAIN agent_movements = {}
    /\ ctp_pc = "returned"
    /\ transition_probability.num = 0

(***************************************************************************)
(* Properties of parse_agents_file, of specification SpecLoad.             *)
(***************************************************************************)
\* The agent-id and time cells of a raw row, None when the column is absent.
IdCell(row) == RowGet(CleanColumns(row), "rank-agentid",
                      RowGet(CleanColumns(row), "agent_id", NoneStr))

TimeCell(row) == RowGet(CleanColumns(row), "time",
                        RowGet(CleanColumns(row), "timestep", NoneNum))

\* The row has an agent identifier and a time value: neither column is absent and
\* neither cell is empty.
Resolvable(row) ==
    /\ IdCell(row) \notin {NoneStr, NaNStr}
    /\ TimeCell(row) \notin {NoneNum, NaNNum}

RECURSIVE TotalRecords(_)
TotalRecords(am) ==
    IF DOMAIN am = {} THEN 0
    ELSE LET k == CHOOSE x \in DOMAIN am : TRUE
         IN  Len(am[k]) + TotalRecords([x \in DOMAIN am \ {k} |-> am[x]])

\* The records of the rows that carry agent id k, in the order of the rows.
RECURSIVE RecordsOfFrom(_, _, _)
RecordsOfFrom(rows, k, i) ==
    IF i > Len(rows) THEN <<>>
    ELSE (IF IdCell(rows[i]) = k /\ TimeCell(rows[i]) # NoneNum
          THEN <<[day |-> TimeCell(rows[i]),
                  location |-> Str(clean_location_name(rows[i]["current_location"]))]>>
          ELSE <<>>)
         \o RecordsOfFrom(rows, k, i + 1)

RECURSIVE WithDay(_, _)
WithDay(h, d) ==
    IF h = <<>> THEN <<>>
    ELSE (IF Head(h).day = d THEN <<Head(h)>> ELSE <<>>) \o WithDay(Tail(h), d)

\* C9: in every history the loader returns, the time step never decreases along
\* the sequence, and records of equal time step keep the order of their rows.
C9_HistoriesSortedStable ==
    load_pc = "returned" =>
        \A k \in DOMAIN parsed :
            /\ \A i \in 1..Len(parsed[k]) : \A j \in 1..Len(parsed[k]) :
                  (i < j /\ parsed[k][i].day # NaNNum /\ parsed[k][j].day # NaNNum)
                      => parsed[k][i].day <= parsed[k][j].day
            /\ \A d \in TimeCells \ {NaNNum} :
                  ~IsNaNId(k) =>
                      WithDay(parsed[k], d) = WithDay(RecordsOfFrom(file.rows, k, 1), d)

\* C10: a row without a resolvable agent identifier or time value, be the column
\* absent or the cell empty, is in no history and creates no agent entry, and
\* all other rows are loaded: the returned mapping holds exactly the resolvable
\* rows.
C10_UnresolvableRowsSkipped ==
    load_pc = "returned" =>
        /\ \A k \in DOMAIN parsed : ~IsNaNId(k)
        /\ \A k \in DOMAIN parsed : \A i \in 1..Len(parsed[k]) :
              parsed[k][i].day # NaNNum
        /\ TotalRecords(parsed) =
              Cardinality({i \in 1..Len(file.rows) : Resolvable(file.rows[i])})

(***************************************************************************)
(* Properties of process_instance_type, of specification SpecAgg.         *)
(***************************************************************************)
\* Reading the file raises nowhere.
Readable(f) ==
    /\ ~(NumChunks(f) = 0 /\ f.fail_at = 1)
    /\ \A k \in 1..NumChunks(f) : ~ChunkRaises(f, k)

LoadsNoAgents(f) == DOMAIN ParseAgentsFile(f) = {}

\* The run directories the loop has gone through.
Processed == {i \in 1..run_index : i <= Len(run_dirs)}

Warned(e, what) ==
    \E w \in 1..Len(warnings) :
        warnings[w] = [run |-> RunNumber(e), what |-> what]

\* C8 as stated: every processed run whose agents file is present and readable
\* has a probability in the per-run list, 0.0 when the file holds no agent, and is
\* counted in the number of runs.
C8_EveryPresentRunScored ==
    /\ Len(transition_probabilities) =
          Cardinality({i \in Processed :
                         run_dirs[i].has_agents_file /\ Readable(run_dirs[i].agents)})
    /\ (pit_pc = "returned" /\ \E i \in Processed :
          run_dirs[i].has_agents_file /\ Readable(run_dirs[i].agents))
          => ~pit_return.is_none

\* C8 as amended: a run whose agents file is present but loads to zero agents is
\* skipped with the warning "No agent movements found": it adds no probability
\* (no 0.0 either) to the per-run list and is not counted in the number of runs;
\* exactly the runs that load at least one agent are scored.
C8_EmptyRunSkipped ==
    /\ Len(transition_probabilities) =
          Cardinality({i \in Processed :
                         run_dirs[i].has_agents_file
                         /\ ~LoadsNoAgents(run_dirs[i].agents)})
    /\ \A i \in Processed :
          (run_dirs[i].has_agents_file /\ LoadsNoAgents(run_dirs[i].agents))
              => Warned(run_dirs[i], "No agent movements found")
    /\ (pit_pc = "returned" /\ ~pit_return.is_none) =>
          pit_return.transition_probabilities = transition_probabilities

\* An instance of two runs, one with a readable header-only agents file and one
\* with agents, returns a list of one probability.
C8_Witness ==
    /\ pit_pc = "returned"
    /\ Len(run_dirs) = 2
    /\ \E i \in 1..2 :
          /\ run_dirs[i].has_agents_file
          /\ Readable(run_dirs[i].agents)
          /\ run_dirs[i].agents.rows = <<>>
    /\ ~pit_return.is_none
    /\ Len(pit_return.transition_probabilities) = 1

(***************************************************************************)
(* Properties of clean_location_name, of specifications SpecClean and      *)
(* SpecNormalize.                                                          *)
(***************************************************************************)
Missing(x) == x \in {NaNLoc, NoneLoc}

\* The string starts with "L:".
StartsWithLColon(x) == ~Missing(x) /\ Len(x) >= 2 /\ Str(SubSeq(x, 1, 2)) = "L:"

\* y is what follows the last colon of x.
FinalSegmentOf(x, y) ==
    /\ \A i \in 1..Len(y) : y[i] # ":"
    /\ Len(y) < Len(x)
    /\ x[Len(x) - Len(y)] = ":"
    /\ x = SubSeq(x, 1, Len(x) - Len(y)) \o y

\* y is the normalized form of x.
NormalizedOf(x, y) ==
    IF Missing(x) THEN y = x
    ELSE IF StartsWithLColon(x) THEN FinalSegmentOf(x, y)
    ELSE y = x

\* The strings that are a piece of x, x itself or empty.
PiecesOf(x) == {x, <<>>} \cup {<<x[i]>> : i \in 1..Len(x)}

\* The location cells of the rows the loader has read.
CellsRead ==
    {file.rows[i]["current_location"] :
        i \in {j \in 1..Len(file.rows) :
                 /\ j <= chunk_count * ChunkSize
                 /\ "current_location" \in DOMAIN file.rows[j]}}

\* C11: clean_location_name returns on every input: a missing value (NaN, None)
\* unchanged, a string that starts with "L:" as what follows its last colon
\* ("L:A:B:C" gives "C"), every other string unchanged ("PlainName" gives
\* "PlainName"); and every location in a history of the loader is the normalized
\* form of a location cell it read.
C11_NormalizerTotal ==
    /\ (clean_pc = "call" /\ clean_returns = <<>>) => ENABLED CleanApply
    /\ (clean_pc = "call" /\ clean_returns # <<>>) =>
          /\ NormalizedOf(raw_location, clean_returns[1])
          /\ raw_location = <<"L", ":", "A", ":", "B", ":", "C">>
                => clean_returns[1] = <<"C">>
          /\ raw_location = <<"PlainName">> => clean_returns[1] = <<"PlainName">>
    /\ \A k \in DOMAIN agent_movements : \A i \in 1..Len(agent_movements[k]) :
          \E x \in CellsRead : \E y \in PiecesOf(x) :
              /\ NormalizedOf(x, y)
              /\ agent_movements[k][i].location = Str(y)

\* "L:A:B:C" has been normalized to "C".
C11_Witness ==
    /\ raw_location = <<"L", ":", "A", ":", "B", ":", "C">>
    /\ clean_returns = <<<<"C">>>>

\* C12: clean_location_name applied to what it returned returns it unchanged, on
\* missing values, on strings that start with "L:" (with empty or repeated "L"
\* segments too) and on plain strings.
C12_NormalizerIdempotent ==
    Len(clean_returns) = 2 => clean_returns[2] = clean_returns[1]

\* "L:L::L" went to "L" and stayed "L".
C12_Witness ==
    /\ raw_location = <<"L", ":", "L", ":", ":", "L">>
    /\ clean_returns = <<<<"L">>, <<"L">>>>

(***************************************************************************)
(* Batching, of specification SpecLoad.                                    *)
(***************************************************************************)
\* What the loader returns when all rows of the file come as one chunk.
SingleBatch(f) ==
    IF f.rows = <<>> THEN EmptyMap ELSE SortAll(LoadChunkOf(EmptyMap, f.rows, 0))

\* The rows that carry agent id k.
RowsOf(k) == {i \in 1..Len(file.rows) : IdCell(file.rows[i]) = k}

\* C13: the loader, reading chunk by chunk, returns the mapping it returns when
\* all rows come as a single batch, and the records of one agent that fall in
\* different chunks are in one history.
C13_BatchingInvisible ==
    load_pc = "returned" =>
        /\ parsed = SingleBatch(file)
        /\ \A k \in DOMAIN parsed : ~IsNaNId(k) => Len(parsed[k]) = Cardinality(RowsOf(k))

(***************************************************************************)
(* Skipped runs and the statistics, of specification SpecAgg.              *)
(***************************************************************************)
\* The proportion of the agents of a mapping whose history has a staging visit
\* followed by a destination visit.
ProportionOf(am) ==
    [num |-> Cardinality({a \in DOMAIN am : StagingThenDestination(am[a])}),
     den |-> Cardinality(DOMAIN am)]

\* The probabilities of the runs among dirs that have an agents file with at least
\* one agent in it, in the order of dirs.
RECURSIVE SucceededProbs(_)
SucceededProbs(dirs) ==
    IF dirs = <<>> THEN <<>>
    ELSE (IF Head(dirs).has_agents_file /\ ~LoadsNoAgents(Head(dirs).agents)
          THEN <<ProportionOf(ParseAgentsFile(Head(dirs).agents))>>
          ELSE <<>>)
         \o SucceededProbs(Tail(dirs))

Half == [num |-> 1, den |-> 2]

\* C14: a run directory without agents.out.0 is skipped with the warning
\* "agents.out.0 not found" and the loop goes on through all the run directories;
\* the probabilities and the statistics returned are those of exactly the runs
\* that succeeded: of two run directories, one of probability 0.5 and one without
\* the file, the function returns 1 run, mean 0.5 and std 0.0.
C14_MissingArtifactSkipped ==
    /\ \A i \in Processed :
          ~run_dirs[i].has_agents_file => Warned(run_dirs[i], "agents.out.0 not found")
    /\ transition_probabilities = SucceededProbs(SubSeq(run_dirs, 1, run_index))
    /\ pit_pc = "returned" =>
          /\ run_index = Len(run_dirs)
          /\ pit_return.is_none <=> SucceededProbs(run_dirs) = <<>>
          /\ ~pit_return.is_none =>
                pit_return.transition_probabilities = SucceededProbs(run_dirs)
          /\ (/\ Len(run_dirs) = 2
              /\ \E i \in 1..2 : ~run_dirs[i].has_agents_file
              /\ SucceededProbs(run_dirs) = <<Half>>)
                => /\ ~pit_return.is_none
                   /\ Len(pit_return.transition_probabilities) = 1
                   /\ pit_return.mean_prob = Half
                   /\ pit_return.std_prob_squared = ZeroFloat

\* Two run directories, the first without agents.out.0 and the second of
\* probability 0.5: the function has returned the statistics of one run.
C14_Witness ==
    /\ pit_pc = "returned"
    /\ Len(run_dirs) = 2
    /\ ~run_dirs[1].has_agents_file
    /\ Warned(run_dirs[1], "agents.out.0 not found")
    /\ pit_return.transition_probabilities = <<Half>>
    /\ pit_return.mean_prob = Half

(***************************************************************************)
(* Properties of main, of specification SpecMain.                          *)
(***************************************************************************)
\* Reading the run's agents file raises.
FailedRun(e) == e.has_agents_file /\ ~Readable(e.agents)

\* The run has an agents file that reads to its end and holds rows.
GoodRun(e) == e.has_agents_file /\ Readable(e.agents) /\ e.agents.rows # <<>>

GoodRunsOf(k) == {e \in results_dir : e.instance = k /\ GoodRun(e)}

InstanceTypes == {instance_types[i] : i \in 1..Len(instance_types)}

SummaryRowsOf(k) == {i \in 1..Len(summary_data) : summary_data[i].Instance = k}

DetailRowsOf(k) == {i \in 1..Len(detailed_data) : detailed_data[i].Instance = k}

\* C15: a failure to read a run's agents file does not leave parse_agents_file:
\* the run is treated as one without data (warned about, no probability added),
\* the loop goes through the remaining runs of the instance, and main goes
\* through all instance types, each getting its statistics from its good runs.
C15_LoadFailureIsolated ==
    /\ \A i \in Processed :
          FailedRun(run_dirs[i]) => Warned(run_dirs[i], "No agent movements found")
    /\ Len(transition_probabilities) <=
          Cardinality({i \in Processed : ~FailedRun(run_dirs[i])})
    /\ Len(transition_probabilities) =
          Cardinality({i \in Processed : GoodRun(run_dirs[i])})
    /\ pit_pc = "returned" => run_index = Len(run_dirs)
    /\ results_dir_exists => main_pc # "exit"
    /\ main_pc = "done" =>
          /\ instance_index = Len(instance_types)
          /\ \A k \in InstanceTypes :
                IF GoodRunsOf(k) = {} THEN k \notin DOMAIN results
                ELSE /\ k \in DOMAIN results
                     /\ results[k].num_runs = Cardinality(GoodRunsOf(k))

\* The first instance type has a run whose file failed to read and a good run,
\* and a later instance type has a good run: both have their statistics.
C15_Witness ==
    /\ main_pc = "done"
    /\ \E e \in results_dir : e.instance = instance_types[1] /\ FailedRun(e)
    /\ instance_types[1] \in DOMAIN results
    /\ results[instance_types[1]].num_runs = 1
    /\ instance_types[3] \in DOMAIN results

\* C16: process_instance_type returns None, None, None exactly when no run of the
\* instance produced a probability (no run directory, or every run skipped); an
\* instance whose runs all have probability 0.0 has a summary of mean 0.0; and
\* main writes no summary row and no detail row for an instance that returned
\* None, and the rows of every other instance.
C16_NoResultNoRows ==
    /\ (main_pc = "called" /\ pit_pc = "returned") =>
          /\ pit_return.is_none <=> GoodRunsOf(instance_type) = {}
          /\ pit_return.is_none <=> transition_probabilities = <<>>
          /\ ~pit_return.is_none => Len(pit_return.transition_probabilities) >= 1
    /\ main_pc = "done" =>
          \A k \in InstanceTypes :
              IF GoodRunsOf(k) = {}
              THEN SummaryRowsOf(k) = {} /\ DetailRowsOf(k) = {}
              ELSE Cardinality(SummaryRowsOf(k)) = 1 /\ DetailRowsOf(k) # {}

\* The first instance type has run directories but no result, the second has a
\* summary of mean 0.0: the tables hold rows of the second and none of the first.
C16_Witness ==
    /\ main_pc = "done"
    /\ \E e \in results_dir : e.instance = instance_types[1]
    /\ SummaryRowsOf(instance_types[1]) = {}
    /\ DetailRowsOf(instance_types[1]) = {}
    /\ \E i \in SummaryRowsOf(instance_types[2]) :
          summary_data[i].Mean_Transition_Probability = ZeroFloat
    /\ DetailRowsOf(instance_types[2]) # {}

\* C18: once both tables are written, Number_of_Runs of every summary row is the
\* number of detail rows of its instance and the number of runs of the instance
\* that produced a probability; every instance of the detail table has exactly
\* one summary row, and every instance of the summary table has detail rows.
C18_TablesConsistent ==
    main_pc = "done" =>
        /\ \A i \in 1..Len(summary_data) :
              LET k == summary_data[i].Instance
              IN  /\ summary_data[i].Number_of_Runs = Cardinality(DetailRowsOf(k))
                  /\ summary_data[i].Number_of_Runs = Cardinality(GoodRunsOf(k))
                  /\ DetailRowsOf(k) # {}
        /\ \A j \in 1..Len(detailed_data) :
              Cardinality(SummaryRowsOf(detailed_data[j].Instance)) = 1

\* Two instances in the summary, one of two runs with its two detail rows.
C18_Witness ==
    /\ main_pc = "done"
    /\ Len(summary_data) = 2
    /\ \E i \in 1..2 :
          /\ summary_data[i].Number_of_Runs = 2
          /\ Cardinality(DetailRowsOf(summary_data[i].Instance)) = 2

(***************************************************************************)
(* The statistics, of specification SpecAgg.                               *)
(***************************************************************************)
Lcm(a, b) == (a * b) \div Gcd(a, b)

\* A common denominator of the quotients of ps.
RECURSIVE CommonDen(_)
CommonDen(ps) == IF ps = <<>> THEN 1 ELSE Lcm(Head(ps).den, CommonDen(Tail(ps)))

\* The numerator of ps[i] over the common denominator d.
Over(ps, i, d) == ps[i].num * (d \div ps[i].den)

RECURSIVE SumOver(_, _, _)
SumOver(ps, i, d) == IF i = 0 THEN 0 ELSE SumOver(ps, i - 1, d) + Over(ps, i, d)

\* The sum of the squares of n * ps[j] - (ps[1] + ... + ps[n]), over j <= i, in
\* units of 1/d.
RECURSIVE SquaresOver(_, _, _)
SquaresOver(ps, i, d) ==
    IF i = 0 THEN 0
    ELSE LET dev == Len(ps) * Over(ps, i, d) - SumOver(ps, Len(ps), d)
         IN  SquaresOver(ps, i - 1, d) + dev * dev

\* C17: of n >= 1 per-run probabilities the function returns their arithmetic
\* mean, and as standard deviation the square root of the sum of the squared
\* deviations from the mean over n - 1 when n >= 2, and 0.0 when n = 1;
\* [0.2, 0.4, 0.6] gives mean 0.4 and std 0.2 (its square 0.04).
C17_MeanAndSampleStd ==
    (pit_pc = "returned" /\ ~pit_return.is_none) =>
        LET ps == pit_return.transition_probabilities
            n == Len(ps)
            d == CommonDen(ps)
            m == pit_return.mean_prob
            v == pit_return.std_prob_squared
        IN  /\ n >= 1
            /\ ps = transition_probabilities
            /\ m.den > 0 /\ v.den > 0
            /\ m.num * n * d = m.den * SumOver(ps, n, d)
            /\ n = 1 => v = ZeroFloat
            /\ n >= 2 => v.num * (n - 1) * n * n * d * d = v.den * SquaresOver(ps, n, d)
            /\ ps = <<[num |-> 1, den |-> 5], [num |-> 2, den |-> 5],
                      [num |-> 3, den |-> 5]>>
                  => m = [num |-> 2, den |-> 5] /\ v = [num |-> 1, den |-> 25]

\* Three runs of probabilities 0.2, 0.4 and 0.6 have given mean 0.4 and std 0.2.
C17_Witness ==
    /\ pit_pc = "returned"
    /\ ~pit_return.is_none
    /\ pit_return.transition_probabilities =
          <<[num |-> 1, den |-> 5], [num |-> 2, den |-> 5], [num |-> 3, den |-> 5]>>
    /\ pit_return.mean_prob = [num |-> 2, den |-> 5]
    /\ pit_return.std_prob_squared = [num |-> 1, den |-> 25]

(***************************************************************************)
(* Run discovery, of specification SpecAgg.                                *)
(***************************************************************************)
IsDigits(suffix) == \A i \in 1..Len(suffix) : suffix[i] \in 0..9

\* The suffix is the decimal form of a positive integer.
IsPositiveInteger(suffix) ==
    /\ suffix # <<>>
    /\ IsDigits(suffix)
    /\ \E i \in 1..Len(suffix) : suffix[i] # 0

\* C19: the run directories found for an instance are exactly the entries of the
\* results directory named <instance>_run_<n>, n a positive integer: no entry
\* with another suffix and no run directory of another instance is among them.
C19_RunDiscoveryExact ==
    pit_pc # "entry" =>
        /\ \A i \in 1..Len(run_dirs) :
              /\ run_dirs[i].instance = instance_type
              /\ IsPositiveInteger(run_dirs[i].suffix)
        /\ \A e \in results_dir :
              (e.instance = instance_type /\ IsPositiveInteger(e.suffix))
                  => \E i \in 1..Len(run_dirs) : run_dirs[i] = e

(***************************************************************************)
(* Overlapping sets, of specification SpecSets.                            *)
(***************************************************************************)
\* The location of the movement examined last.
LastSeen == History[pos].location

InBothSets(l) == l \in idp_camps /\ l = coxs_bazar

StagingSeenBefore(n) == \E i \in 1..(n - 1) : History[i].location \in idp_camps

IdsOf(f) == {IdCell(f.rows[i]) : i \in 1..Len(f.rows)}

\* Agent k of file f is seen in a camp at some time step and in Cox's Bazar at a
\* later one.
CampThenCoxsIn(f, k) ==
    \E i \in 1..Len(f.rows) : \E j \in 1..Len(f.rows) :
        /\ IdCell(f.rows[i]) = k /\ IdCell(f.rows[j]) = k
        /\ TimeCell(f.rows[i]) < TimeCell(f.rows[j])
        /\ Str(clean_location_name(f.rows[i]["current_location"])) \in IDP_CAMPS
        /\ Str(clean_location_name(f.rows[j]["current_location"])) = COXS_BAZAR

\* The run the loop went through last has been scored.
LastRunScored ==
    /\ pit_pc \in {"runs", "returned"}
    /\ run_index >= 1
    /\ GoodRun(run_dirs[run_index])

\* C21: the counts and the probability of a scored run are those of the agents of
\* its own agents file, whatever the runs and instances processed before it were:
\* no agent of another run is counted in it.
C21_RunsIndependent ==
    LastRunScored =>
        LET f == run_dirs[run_index].agents
        IN  /\ DOMAIN agent_movements = IdsOf(f)
            /\ total_agents = Cardinality(IdsOf(f))
            /\ transition_agents =
                  Cardinality({k \in IdsOf(f) : CampThenCoxsIn(f, k)})
            /\ transition_probability =
                  [num |-> transition_agents, den |-> total_agents]

\* In the second instance type a run of one agent, none transitioned, has been
\* scored right after a run of two agents of which one transitioned.
C21_Witness ==
    /\ LastRunScored
    /\ instance_index >= 1
    /\ run_index = 2
    /\ run_dirs[1].agents = OneOfTwoFile
    /\ run_dirs[2].agents = NoneOfOneFile
    /\ total_agents = 1
    /\ transition_agents = 0

(***************************************************************************)
(* The Run column of the detail table, of specification SpecMain.          *)
(***************************************************************************)
\* The number a suffix of digits is the decimal form of.
RECURSIVE SuffixValue(_)
SuffixValue(suffix) ==
    IF suffix = <<>> THEN 0
    ELSE 10 * SuffixValue(SubSeq(suffix, 1, Len(suffix) - 1)) + suffix[Len(suffix)]

\* The probability of the agents of a file.
ProbabilityOfFile(f) ==
    [num |-> Cardinality({k \in IdsOf(f) : CampThenCoxsIn(f, k)}),
     den |-> Cardinality(IdsOf(f))]

\* C22: every row of the detail table carries as Run the run number n of a scored
\* run directory <instance>_run_<n> of its instance and as Transition_Probability
\* the probability of that run, also when runs of the instance were skipped.
C22_DetailRowNamesItsRun ==
    main_pc = "done" =>
        \A j \in 1..Len(detailed_data) :
            \E e \in GoodRunsOf(detailed_data[j].Instance) :
                /\ SuffixValue(e.suffix) = detailed_data[j].Run
                /\ ProbabilityOfFile(e.agents) = detailed_data[j].Transition_Probability

(***************************************************************************)
(* The order of the input rows, of specification SpecLoad.                 *)
(***************************************************************************)
\* The orders n rows can come in.
RowOrders(n) == {p \in [1..n -> 1..n] : \A i \in 1..n : \A j \in 1..n : i # j => p[i] # p[j]}

\* The file with its rows in the order p.
Reordered(f, p) == [f EXCEPT !.rows = [i \in 1..Len(f.rows) |-> f.rows[p[i]]]]

\* No two rows of one agent carry the same time step.
DistinctTimes(f) ==
    \A i \in 1..Len(f.rows) : \A j \in 1..Len(f.rows) :
        (i # j /\ IdCell(f.rows[i]) = IdCell(f.rows[j]))
            => TimeCell(f.rows[i]) # TimeCell(f.rows[j])

CountsOf(am) ==
    <<CalculateTransitionProbability(am).transition_agents,
      CalculateTransitionProbability(am).total_agents>>

\* C23: when the rows of every agent have pairwise distinct time steps, loading
\* the file and classifying gives the same transition_agents and total_agents
\* for every order of the input rows.
C23_RowOrderInvisible ==
    (load_pc = "returned" /\ DistinctTimes(file)) =>
        \A p \in RowOrders(Len(file.rows)) :
            CountsOf(ParseAgentsFile(Reordered(file, p))) = CountsOf(parsed)

(***************************************************************************)
(* Records at other locations, of specification SpecCtp.                   *)
(***************************************************************************)
\* The record is at a location in neither set: another place, or no location.
Neutral(m) == ~IsStaging(m) /\ ~IsDestination(m)

\* The history without its neutral records.
RECURSIVE WithoutNeutral(_)
WithoutNeutral(h) ==
    IF h = <<>> THEN <<>>
    ELSE IF Neutral(Head(h)) THEN WithoutNeutral(Tail(h))
         ELSE <<Head(h)>> \o WithoutNeutral(Tail(h))

\* The flags of the loop after the records of h.
FlagsAfter(h) ==
    <<Scan(h).st.went_to_idp_first, Scan(h).st.went_to_coxs_after_idp>>

\* C24: records at a location in neither set, the missing location among them,
\* never change the flags: after any number of an agent's records the flags are
\* those the records give with the neutral ones removed, and so is the agent's
\* result.
C24_NeutralRecordsInert ==
    ctp_pc \in {"movements", "agent_end"} =>
        <<went_to_idp_first, went_to_coxs_after_idp>> =
            FlagsAfter(WithoutNeutral(SubSeq(agent_movements[agent_id], 1, pos)))

C24_Witness ==
    /\ ctp_pc = "agent_end"
    /\ LocationsOf(agent_movements[agent_id]) = <<NaNStr, "Sittwe", "Dhaka", COXS_BAZAR>>
    /\ went_to_coxs_after_idp

(***************************************************************************)
(* Conservation of the rows, of specification SpecLoad.                    *)
(***************************************************************************)
\* The loop over the rows passes the row by: agent_id is None or day is None.
Skipped(row) == IsNoneId(IdCell(row)) \/ IsNoneDay(TimeCell(row))

\* How many times the record r is in the history h.
Occurrences(h, r) == Cardinality({i \in 1..Len(h) : h[i] = r})

\* C25: when the loader returns a mapping, every row the loop did not skip is in
\* it exactly once, in the history of the row's own agent id: every history has
\* as many copies of a record as the agent's rows have, no history is empty and
\* the records of all histories are as many as the rows not skipped.
C25_RowsConserved ==
    load_pc = "returned" =>
        /\ TotalRecords(parsed) =
              Cardinality({i \in 1..Len(file.rows) : ~Skipped(file.rows[i])})
        /\ \A k \in DOMAIN parsed : parsed[k] # <<>>
        /\ \A k \in DOMAIN parsed :
              ~IsNaNId(k) =>
                  LET own == RecordsOfFrom(file.rows, k, 1)
                  IN  /\ Len(parsed[k]) = Len(own)
                      /\ \A i \in 1..Len(own) :
                            Occurrences(parsed[k], own[i]) = Occurrences(own, own[i])
        /\ \A k \in IdCells \ {NaNStr} :
              (k \notin DOMAIN parsed) => RecordsOfFrom(file.rows, k, 1) = <<>>

C25_Witness ==
    /\ load_pc = "returned"
    /\ chunk_count = 2
    /\ Len(file.rows) = 3
    /\ file.rows[1] = file.rows[3]
    /\ AgentKey(1) \in DOMAIN parsed
    /\ Len(parsed[AgentKey(1)]) = 2
    /\ AgentKey(2) \in DOMAIN parsed

(***************************************************************************)
(* A failure while reading, of specification SpecLoad.                     *)
(***************************************************************************)
\* C26: when reading a chunk or a row fails, the loader returns the empty mapping,
\* with none of the records it had accumulated from earlier chunks, and the
\* caller's test for a run without data holds of what it returns.
C26_FailureAllOrNothing ==
    load_pc = "raised" =>
        /\ parsed = EmptyMap
        /\ ParseAgentsFile(file) = EmptyMap
        /\ SkipsRun(parsed)

\* The second chunk fails after the first has put records into agent_movements.
C26_Witness ==
    /\ load_pc = "raised"
    /\ chunk_count = 2
    /\ TotalRecords(agent_movements) = ChunkSize
    /\ parsed = EmptyMap

(***************************************************************************)
(* The results directory and the two tables, of specification SpecMain.    *)
(***************************************************************************)
\* C27: without a results directory main exits with status 1 before it processes
\* an instance and saves neither table; with one it never exits that way, and at
\* its end both tables are saved, also when no instance has a result.
C27_ExitOrBothTables ==
    /\ ~results_dir_exists =>
          /\ main_pc \in {"entry", "exit"}
          /\ main_pc = "exit" <=> exit_status = <<1>>
          /\ instance_index = 0
          /\ pit_pc = "idle"
          /\ saved = {}
    /\ results_dir_exists =>
          /\ exit_status # <<1>>
          /\ main_pc = "done" => saved = {summary_file, detailed_file}
          /\ detailed_file \in saved => summary_file \in saved

\* main has ended with no result for any instance, and main has exited.
C27_Witness ==
    /\ main_pc = "done"
    /\ results_dir # {}
    /\ DOMAIN results = {}
    /\ saved = {summary_file, detailed_file}
    /\ summary_data = <<>>

C27_WitnessExit ==
    ~results_dir_exists /\ main_pc = "exit" /\ exit_status = <<1>>

(***************************************************************************)
(* The scaling of the errors, of specification SpecScale.                  *)
(***************************************************************************)
Locs == 1..shape.locations

\* The cells of location l.
CellsOf(l) == {i \in DOMAIN data_array : i[3] = l}

\* The finite values location l has in data_array.
FiniteOf(l) == ValidValues(LocationData(data_array, shape, l))

\* The value is a number between 0 and 1.
InUnit(x) == IsFinite(x) /\ 0 <= x.num /\ x.num <= x.den

\* C28: scale_errors_to_01 returns an array of the shape of its argument whose
\* values all are between 0 and 1; a location with two or more distinct finite
\* values has its minimum at 0 and its maximum at 1, a location whose finite
\* values are all equal has them at 0.5, and the scaled values of a location do
\* not change with a value of another location.
C28_ScaledToUnitPerLocation ==
    scale_pc = "returned" =>
        /\ DOMAIN scaled_array = DOMAIN data_array
        /\ \A i \in DOMAIN scaled_array : InUnit(scaled_array[i])
        /\ \A l \in Locs : \A i \in CellsOf(l) :
              /\ (Cardinality(FiniteOf(l)) >= 2 /\ data_array[i] = Num(SetMin(FiniteOf(l))))
                    => scaled_array[i] = Num(0)
              /\ (Cardinality(FiniteOf(l)) >= 2 /\ data_array[i] = Num(SetMax(FiniteOf(l))))
                    => scaled_array[i] = Num(1)
              /\ (Cardinality(FiniteOf(l)) = 1 /\ IsFinite(data_array[i]))
                    => scaled_array[i] = Frac([num |-> 1, den |-> 2])
        /\ \A l \in Locs : \A j \in DOMAIN data_array : \A v \in ValuesOf(dtype) :
              j[3] # l =>
                  \A i \in CellsOf(l) :
                      ScaleErrorsTo01([data_array EXCEPT ![j] = v], shape, dtype)[i]
                          = scaled_array[i]

(***************************************************************************)
(* An instance without run data, of specification SpecBatch.               *)
(***************************************************************************)
\* No out.csv of the instance was read.
NoRunData(k) == CollectAllRunsData(k) = {}

\* The instances the loop has dealt with.
Dealt == {instance_names[i] : i \in 1..batch_index}

\* C29: an instance for which no run data is found does not end the batch: it is
\* left out of all_results, the loop continues, and when main returns with a
\* base path analyze_instance has been called on every instance of
\* instance_names, in their order, and every instance with run data whose
\* plotting did not fail is in all_results.
C29_BatchSurvivesNoData ==
    /\ batch_pc # "aborted"
    /\ \A k \in Dealt : NoRunData(k) => k \notin all_results
    /\ \A i \in 1..Len(batch_errors) : batch_errors[i] \notin all_results
    /\ (batch_pc = "returned" /\ base_path_exists) =>
          /\ analysed = instance_names
          /\ \A k \in InstanceNames :
                k \in all_results <=> (~NoRunData(k) /\ ~plot_fails[k])

\* The first instance has no run data; the two after it were analysed and kept.
C29_Witness ==
    /\ batch_pc = "returned"
    /\ NoRunData(instance_names[1])
    /\ batch_errors = <<instance_names[1]>>
    /\ all_results = {instance_names[2], instance_names[3]}
    /\ analysed = instance_names

====
